---- MODULE Spec2Model ----
(***************************************************************************)
(* Model of the rewriting reverse proxy of server.js (the multi-provider   *)
(* variant, src/server.js lines 509-2171): the path codec (toProxyPath,    *)
(* toPPProxyPath and the path grammar of the /jili and /pp-proxy           *)
(* forwarders), the forwarder's request/response event handlers, the game  *)
(* URL resolver with its HTTP routes, and the Referer catch-all.           *)
(*                                                                         *)
(* Strings are sequences of one-character strings, so that endsWith,       *)
(* startsWith, the regular expressions and new URL() are computed on the   *)
(* characters, as the code computes them.                                  *)
(***************************************************************************)
EXTENDS Integers, Sequences, FiniteSets, TLC

VARIABLES
    pc,         \* position of the modelled request handler
    provider,   \* "jili" or "pp": which codec / forwarder is exercised
    fullUrl,    \* codec: the argument of toProxyPath / toPPProxyPath
    proxied,    \* codec: what toProxyPath returned
    decoded     \* codec: what the forwarder's path match produced

codecVars == <<provider, fullUrl, proxied, decoded>>

VARIABLES
    OUTBOUND_PROXY_URL, \* configuration: whether process.env.OUTBOUND_PROXY_URL is set
    req,                \* forwarder: the inbound request (method, url, headers)
    reqStream,          \* forwarder: "open", or which of 'aborted' / 'close' req has emitted
    proxyReq,           \* forwarder: the upstream request (https.request)
    proxyRes,           \* forwarder: the upstream response and what of its body is to come
    res,                \* forwarder: the response to the client
    chunks,             \* forwarder: the chunks buffered for an HTML body
    upstreamCreated,    \* forwarder: how many times https.request was called
    errLog              \* forwarder: how many errors console.error logged

fwdVars == <<req, reqStream, proxyReq, proxyRes, res, chunks, upstreamCreated, errLog>>

VARIABLES
    route,      \* the route that answers the request: "api", "jili", "pp", "joker", "legacy"
    param,      \* req.params.id, req.params.slug or req.params.code
    step,       \* the await the resolver is suspended at
    targetUrl,  \* the URL of the outbound call awaited (loginTrialUrl, ppPageUrl, gameUrl)
    loopI,      \* the loop counter i of the redirect loops
    calls,      \* how many outbound requests the resolver has issued
    callAgent,  \* the agent of the outbound call awaited
    got,        \* what the last await gave (step1, step3, resp, apiResp)
    result      \* what the resolver returned or threw

playVars == <<route, param, step, targetUrl, loopI, calls, callAgent, got, result>>

VARIABLES
    rwBody,     \* rewrite: the body handed to rewriteHtml / rewritePPHtml
    rwHost,     \* rewrite: its argument targetHost (empty when not given)
    rwOut       \* rewrite: what the passes of the rewrite returned so far

rewriteVars == <<rwBody, rwHost, rwOut>>

VARIABLES
    disk,       \* image proxy: the files of PP_IMG_CACHE_DIR, by name
    img         \* image proxy: the requests for /api/proxy-image in progress, by client

imgVars == <<disk, img>>

\* the variables of the parts modelled on their own
\* the requests a client has made so far by following redirects: <<route, url>> each
VARIABLES trail
navVars == <<trail>>

\* the outbound request of the call a resolver awaits, event by event
VARIABLES call
getVars == <<call>>

extraVars == <<rewriteVars, imgVars, navVars, getVars>>

vars == <<pc, codecVars, OUTBOUND_PROXY_URL, fwdVars, playVars, extraVars>>

----------------------------------------------------------------------------
(* Bounds of the model                                                     *)

MaxHostPrefix == 1      \* characters put in front of a host tail
MaxRest == 2            \* characters of path / query material after the host
MaxChunks == 2          \* chunks of an upstream response body

----------------------------------------------------------------------------
(* Strings                                                                 *)

EMPTY == <<>>

\* s.startsWith(p)
StartsWith(s, p) ==
    /\ Len(p) <= Len(s)
    /\ SubSeq(s, 1, Len(p)) = p

\* s.endsWith(p)
EndsWith(s, p) ==
    /\ Len(p) <= Len(s)
    /\ SubSeq(s, Len(s) - Len(p) + 1, Len(s)) = p

\* s.substring(i-1): the suffix of s that starts at (1-based) position i
From(s, i) == SubSeq(s, i, Len(s))

\* s.indexOf(p) as a 1-based position, 0 when p does not occur
IndexOf(s, p) ==
    LET hits == {i \in 1..(Len(s) - Len(p) + 1) : SubSeq(s, i, i + Len(p) - 1) = p}
    IN  IF hits = {} THEN 0 ELSE CHOOSE i \in hits : \A j \in hits : i <= j

\* s.includes(p)
Includes(s, p) == IndexOf(s, p) # 0

LOWER == <<"a", "b", "c", "d", "e", "f", "g", "h", "i", "j", "k", "l", "m",
           "n", "o", "p", "q", "r", "s", "t", "u", "v", "w", "x", "y", "z">>
UPPER == <<"A", "B", "C", "D", "E", "F", "G", "H", "I", "J", "K", "L", "M",
           "N", "O", "P", "Q", "R", "S", "T", "U", "V", "W", "X", "Y", "Z">>

Range(f) == {f[i] : i \in DOMAIN f}

LowerChar(c) ==
    IF c \in Range(UPPER) THEN LOWER[CHOOSE i \in 1..26 : UPPER[i] = c] ELSE c

\* s.toLowerCase()
Lower(s) == [i \in 1..Len(s) |-> LowerChar(s[i])]

Letters == Range(LOWER) \cup Range(UPPER)
Digits == {"0", "1", "2", "3", "4", "5", "6", "7", "8", "9"}

\* the character class [a-zA-Z0-9.-] of the host group of every host pattern
HostClass == Letters \cup Digits \cup {".", "-"}

\* length of the longest prefix of s made of characters of class
RECURSIVE RunLen(_, _)
RunLen(s, class) ==
    IF s = EMPTY \/ Head(s) \notin class THEN 0 ELSE 1 + RunLen(Tail(s), class)

\* position of the first character of s that is in set, Len(s) + 1 when none is
FirstOf(s, set) ==
    LET hits == {i \in 1..Len(s) : s[i] \in set}
    IN  IF hits = {} THEN Len(s) + 1 ELSE CHOOSE i \in hits : \A j \in hits : i <= j

\* position of the last occurrence of character c in s, 0 when none
LastIndexOf(s, c) ==
    LET hits == {i \in 1..Len(s) : s[i] = c}
    IN  IF hits = {} THEN 0 ELSE CHOOSE i \in hits : \A j \in hits : i >= j

\* every sequence over set of length at most n
SeqsUpTo(set, n) == UNION {[1..k -> set] : k \in 0..n}

----------------------------------------------------------------------------
(* new URL(text), without a base: the WHATWG parser on the characters the  *)
(* model draws (ASCII, no backslash, no percent sign, no dot segment, no   *)
(* "file" scheme), where no percent-encoding or path normalisation occurs. *)

SchemeChars == Letters \cup Digits \cup {"+", "-", "."}

SpecialSchemes == { <<"h", "t", "t", "p">>, <<"h", "t", "t", "p", "s">>,
                    <<"f", "t", "p">>, <<"w", "s">>, <<"w", "s", "s">> }

\* forbidden domain code points that are printable ASCII
ForbiddenHostChars == {" ", "#", "/", ":", "<", ">", "?", "@", "[", "]", "^", "|", "%"}

InvalidURL == [ok |-> FALSE, hostname |-> EMPTY, pathname |-> EMPTY, search |-> EMPTY]

\* pathname and search of what follows the authority
PathAndSearch(after, special) ==
    LET pEnd  == FirstOf(after, {"?", "#"})
        path  == SubSeq(after, 1, pEnd - 1)
        tail  == From(after, pEnd)
        qEnd  == FirstOf(tail, {"#"})
        query == IF tail # EMPTY /\ Head(tail) = "?" THEN SubSeq(tail, 2, qEnd - 1)
                 ELSE EMPTY
    IN  [pathname |-> IF path = EMPTY /\ special THEN <<"/">> ELSE path,
         search   |-> IF query = EMPTY THEN EMPTY ELSE <<"?">> \o query]

\* authority state, host state and port state, then the path
ParseAuthority(rest, special) ==
    LET aEnd     == FirstOf(rest, {"/", "?", "#"})
        auth     == SubSeq(rest, 1, aEnd - 1)
        hostport == From(auth, LastIndexOf(auth, "@") + 1)
        hEnd     == FirstOf(hostport, {":"})
        host     == SubSeq(hostport, 1, hEnd - 1)
        port     == From(hostport, hEnd + 1)
        ps       == PathAndSearch(From(rest, aEnd), special)
    IN  IF \/ special /\ host = EMPTY
           \/ \E i \in 1..Len(host) : host[i] \in ForbiddenHostChars
           \/ \E i \in 1..Len(port) : port[i] \notin Digits
        THEN InvalidURL
        ELSE [ok |-> TRUE,
              hostname |-> IF special THEN Lower(host) ELSE host,
              pathname |-> ps.pathname, search |-> ps.search]

ParseURL(text) ==
    LET n == RunLen(text, SchemeChars)
    IN  IF text = EMPTY \/ Head(text) \notin Letters \/ n = Len(text) \/ text[n + 1] # ":"
        THEN InvalidURL                     \* no scheme and no base: TypeError
        ELSE
          LET scheme == Lower(SubSeq(text, 1, n))
              rest   == From(text, n + 2)
          IN  IF scheme \in SpecialSchemes
              THEN \* special authority (ignore) slashes state: every leading slash is skipped
                   ParseAuthority(From(rest, RunLen(rest, {"/"}) + 1), TRUE)
              ELSE IF StartsWith(rest, <<"/", "/">>)
              THEN ParseAuthority(From(rest, 3), FALSE)
              ELSE \* path-only or opaque-path URL: the host is empty
                   LET ps == PathAndSearch(rest, FALSE)
                   IN  [ok |-> TRUE, hostname |-> EMPTY,
                        pathname |-> ps.pathname, search |-> ps.search]

----------------------------------------------------------------------------
(* Domain router / path codec                                              *)

JILI_COM == <<"j", "i", "l", "i", "g", "a", "m", "e", "s", ".", "c", "o", "m">>
PP_NET == <<"p", "r", "a", "g", "m", "a", "t", "i", "c", "p", "l", "a", "y",
            ".", "n", "e", "t">>
PP_COM == <<"p", "r", "a", "g", "m", "a", "t", "i", "c", "p", "l", "a", "y",
            ".", "c", "o", "m">>

JILI_PREFIX == <<"/", "j", "i", "l", "i">>
PP_PREFIX == <<"/", "p", "p", "-", "p", "r", "o", "x", "y">>

Providers == {"jili", "pp"}

\* the suffixes a provider's code tests the host against
Suffixes(p) == IF p = "jili" THEN {JILI_COM} ELSE {PP_NET, PP_COM}

\* the mount path of a provider's forwarder
Prefix(p) == IF p = "jili" THEN JILI_PREFIX ELSE PP_PREFIX

\* HostAllowed with hostname.includes(suffix) in place of hostname.endsWith(suffix)
HostAllowed_includes(p, hostname) == \E suf \in Suffixes(p) : Includes(hostname, suf)

\* u.hostname.endsWith(...) of toProxyPath and toPPProxyPath
HostAllowed(p, hostname) == \E suf \in Suffixes(p) : EndsWith(hostname, suf)

NullPath == [kind |-> "null", path |-> EMPTY]

\* no call was made yet
NoPath == [kind |-> "none", path |-> EMPTY]

\* PathOf without the test of the host
PathOf_anyHost(p, u) ==
    IF u.ok
    THEN [kind |-> "path",
          path |-> Prefix(p) \o <<"/">> \o u.hostname \o u.pathname \o u.search]
    ELSE NullPath

\* the path of the parsed URL u: prefix + '/' + hostname + pathname + search, or null
PathOf(p, u) ==
    IF u.ok /\ HostAllowed(p, u.hostname)
    THEN [kind |-> "path",
          path |-> Prefix(p) \o <<"/">> \o u.hostname \o u.pathname \o u.search]
    ELSE NullPath

\* try { u = new URL(fullUrl); if (allowed) return prefix + '/' + hostname + pathname
\* + search } catch {} return null
ToProviderPath(p, text) == PathOf(p, ParseURL(text))

toProxyPath(text) == ToProviderPath("jili", text)

toPPProxyPath(text) == ToProviderPath("pp", text)

toPath(p, text) == IF p = "jili" THEN toProxyPath(text) ELSE toPPProxyPath(text)

\* req.url inside app.use(prefix, ...): Express strips the mount path
MountedUrl(p, url) ==
    LET r == From(url, Len(Prefix(p)) + 1)
    IN  IF r = EMPTY \/ Head(r) # "/" THEN <<"/">> \o r ELSE r

\* whether app.use(prefix, ...) handles the request path
Mounted(p, url) ==
    /\ StartsWith(url, Prefix(p))
    /\ Len(url) = Len(Prefix(p)) \/ url[Len(Prefix(p)) + 1] \in {"/", "?"}

NoMatch == [ok |-> FALSE, host |-> EMPTY, path |-> EMPTY, query |-> EMPTY]

\* fullPath.match(/^\/([a-zA-Z0-9.-]*SUFFIX)(\/[^?]*)?(\?.*)?$/): the host group is
\* the whole run of class characters after the first slash, because what follows
\* it must be a slash, a question mark or the end
PathMatch(p, fullPath) ==
    IF fullPath = EMPTY \/ Head(fullPath) # "/" THEN NoMatch
    ELSE
      LET body == Tail(fullPath)
          h    == RunLen(body, HostClass)
          host == SubSeq(body, 1, h)
          rest == From(body, h + 1)
          qAt  == FirstOf(rest, {"?"})
      IN  IF /\ HostAllowed(p, host)
             /\ rest = EMPTY \/ Head(rest) \in {"/", "?"}
          THEN [ok |-> TRUE, host |-> host,
                path |-> SubSeq(rest, 1, qAt - 1), query |-> From(rest, qAt)]
          ELSE NoMatch

\* targetPathWithoutQuery = match[2] || '/'
TargetPathWithoutQuery(m) == IF m.path = EMPTY THEN <<"/">> ELSE m.path

----------------------------------------------------------------------------
(* Response header rewriting of the forwarders                             *)

\* length of the longest prefix of s made of characters outside set
RECURSIVE RunLenNot(_, _)
RunLenNot(s, set) ==
    IF s = EMPTY \/ Head(s) \in set THEN 0 ELSE 1 + RunLenNot(Tail(s), set)

DOMAIN_EQ == <<"d", "o", "m", "a", "i", "n", "=">>

\* c.replace(/domain=[^;]+;?/gi, ''): every match, scanning from the left, is removed
RECURSIVE StripDomain(_)
StripDomain(c) ==
    IF c = EMPTY THEN EMPTY
    ELSE IF /\ Len(c) > Len(DOMAIN_EQ)
            /\ Lower(SubSeq(c, 1, Len(DOMAIN_EQ))) = DOMAIN_EQ
            /\ c[Len(DOMAIN_EQ) + 1] # ";"
         THEN LET val   == From(c, Len(DOMAIN_EQ) + 1)
                  after == From(val, RunLenNot(val, {";"}) + 1)
              IN  StripDomain(IF after # EMPTY /\ Head(after) = ";" THEN Tail(after)
                              ELSE after)
         ELSE <<Head(c)>> \o StripDomain(Tail(c))

\* cookies.map(c => c.replace(/domain=[^;]+;?/gi, ''))
RewriteSetCookie(cookies) == [i \in 1..Len(cookies) |-> StripDomain(cookies[i])]

\* RewriteLocation without the branch for a Location that starts with "/"
RewriteLocation_noRelative(p, targetHost, loc) ==
    LET proxiedLoc == toPath(p, loc)
    IN  IF proxiedLoc.kind = "path" THEN proxiedLoc.path ELSE loc

\* the value the forwarder of provider p sets for an upstream Location header
RewriteLocation(p, targetHost, loc) ==
    LET proxiedLoc == toPath(p, loc)
    IN  IF proxiedLoc.kind = "path" THEN proxiedLoc.path
        ELSE IF StartsWith(loc, <<"/">>) THEN Prefix(p) \o <<"/">> \o targetHost \o loc
        ELSE loc

\* the header names of the model; Node gives them in lower case
HeaderNames == {"location", "set-cookie", "content-type", "content-length",
                "x-frame-options", "x-content-type-options",
                "content-security-policy", "content-security-policy-report-only",
                "cache-control", "access-control-allow-origin"}

\* IsDroppedHeader without the test for the content-security-policy headers
IsDroppedHeader_noCsp(k) == k \in {"x-frame-options", "x-content-type-options"}

\* k === 'x-frame-options' || k === 'x-content-type-options' ||
\* k.startsWith('content-security-policy')
IsDroppedHeader(k) ==
    k \in {"x-frame-options", "x-content-type-options",
           "content-security-policy", "content-security-policy-report-only"}

STAR == <<"*">>

\* the headers of res after the loop over proxyRes.headers and the CORS header
CopyHeaders(p, targetHost, resHeaders, upHeaders) ==
    LET kept == {k \in DOMAIN upHeaders : ~IsDroppedHeader(k)}
        names == DOMAIN resHeaders \cup kept \cup {"access-control-allow-origin"}
    IN  [k \in names |->
            IF k = "access-control-allow-origin" THEN STAR
            ELSE IF k \notin kept THEN resHeaders[k]
            ELSE IF k = "location" THEN RewriteLocation(p, targetHost, upHeaders[k])
            ELSE IF k = "set-cookie" THEN RewriteSetCookie(upHeaders[k])
            ELSE upHeaders[k]]

----------------------------------------------------------------------------
(* Response rewriter: rewriteHtml and rewritePPHtml                        *)

HTTP_SCHEME == <<"h", "t", "t", "p", ":", "/", "/">>
HTTPS_SCHEME == <<"h", "t", "t", "p", "s", ":", "/", "/">>

\* the characters that end the path group (\/[^"'<>\s]*) of the URL pattern
UrlStop == {"\"", "'", "<", ">", " ", "\t", "\n", "\r"}

\* MatchUrlAt whose pattern does not ask for the scheme
MatchUrlAt_noScheme(p, s) ==
    LET a     == IF StartsWith(s, HTTPS_SCHEME) THEN Len(HTTPS_SCHEME)
                 ELSE IF StartsWith(s, HTTP_SCHEME) THEN Len(HTTP_SCHEME) ELSE 0
        rest  == From(s, a + 1)
        h     == RunLen(rest, HostClass)
        host  == SubSeq(rest, 1, h)
        after == From(rest, h + 1)
    IN  IF h > 0 /\ HostAllowed(p, host) /\ after # EMPTY /\ Head(after) = "/"
        THEN LET n == 1 + RunLenNot(Tail(after), UrlStop)
             IN  [len |-> a + h + n,
                  out |-> Prefix(p) \o <<"/">> \o host \o SubSeq(after, 1, n)]
        ELSE [len |-> 0, out |-> EMPTY]

\* /https?:\/\/([a-zA-Z0-9.-]*SUFFIX)(\/[^"'<>\s]*)/ tried at the start of s:
\* the length matched (0 when it does not match) and the replacement
MatchUrlAt(p, s) ==
    LET a     == IF StartsWith(s, HTTPS_SCHEME) THEN Len(HTTPS_SCHEME)
                 ELSE IF StartsWith(s, HTTP_SCHEME) THEN Len(HTTP_SCHEME) ELSE 0
        rest  == From(s, a + 1)
        h     == RunLen(rest, HostClass)
        host  == SubSeq(rest, 1, h)
        after == From(rest, h + 1)
    IN  IF a > 0 /\ HostAllowed(p, host) /\ after # EMPTY /\ Head(after) = "/"
        THEN LET n == 1 + RunLenNot(Tail(after), UrlStop)
             IN  [len |-> a + h + n,
                  out |-> Prefix(p) \o <<"/">> \o host \o SubSeq(after, 1, n)]
        ELSE [len |-> 0, out |-> EMPTY]

\* body.replace(/https?:\/\/(...)(...)/g, (match, host, path) => prefix + '/' + host + path)
RECURSIVE ReplaceUrls(_, _)
ReplaceUrls(p, s) ==
    LET hits == { n \in 1..Len(s) : MatchUrlAt(p, From(s, n)).len > 0 }
    IN  IF hits = {} THEN s
        ELSE LET first == CHOOSE n \in hits : \A m \in hits : n <= m
                 found == MatchUrlAt(p, From(s, first))
             IN  SubSeq(s, 1, first - 1) \o found.out
                 \o ReplaceUrls(p, From(s, first + found.len))

HEAD_LOWER == <<"<", "h", "e", "a", "d", ">">>
HEAD_UPPER == <<"<", "H", "E", "A", "D", ">">>

\* `<base href="${basePath}">`
BaseTag(basePath) == <<"<", "b", "a", "s", "e", " ", "h", "r", "e", "f", "=", "\"">> \o basePath \o <<"\"", ">">>

\* the override script; its fixed text before and after proxyBase is one element each
OverrideScript(proxyBase) ==
    <<"<script>(function(){var B='">> \o proxyBase \o <<"';...})();</script>">>

\* html.replace(tag, tag + injection): the first occurrence, which exists
InjectAfter(html, tag, injection) ==
    LET i == IndexOf(html, tag)
    IN  SubSeq(html, 1, i + Len(tag) - 1) \o injection \o From(html, i + Len(tag))

RewriteProviderHtml(p, body, targetHost, targetPathDir) ==
    LET html == ReplaceUrls(p, body)
        base == Prefix(p) \o <<"/">> \o targetHost \o targetPathDir
        basePath == IF EndsWith(base, <<"/">>) THEN base ELSE base \o <<"/">>
        injection == BaseTag(basePath)
                     \o OverrideScript(Prefix(p) \o <<"/">> \o targetHost)
    IN  IF targetHost = EMPTY THEN html
        ELSE IF Includes(html, HEAD_LOWER) THEN InjectAfter(html, HEAD_LOWER, injection)
        ELSE IF Includes(html, HEAD_UPPER) THEN InjectAfter(html, HEAD_UPPER, injection)
        ELSE injection \o html

rewriteHtml(body, targetHost, targetPathDir) ==
    RewriteProviderHtml("jili", body, targetHost, targetPathDir)

rewritePPHtml(body, targetHost, targetPathDir) ==
    RewriteProviderHtml("pp", body, targetHost, targetPathDir)

----------------------------------------------------------------------------
(* Upstream request forwarder: app.use('/jili') and app.use('/pp-proxy')   *)

EmptyFn == [k \in {} |-> EMPTY]

DigitStr == <<"0", "1", "2", "3", "4", "5", "6", "7", "8", "9">>

\* the decimal digits of a natural number
RECURSIVE Dec(_)
Dec(n) == IF n < 10 THEN <<DigitStr[n + 1]>>
          ELSE Dec(n \div 10) \o <<DigitStr[(n % 10) + 1]>>

\* the response object before the handler touched it
FreshRes == [statusCode |-> 200, headers |-> EmptyFn, headersSent |-> FALSE,
             finished |-> FALSE, body |-> EMPTY, sends |-> <<>>]

TEXT_HTML_UTF8 == <<"t", "e", "x", "t", "/", "h", "t", "m", "l", ";", " ", "c", "h", "a", "r", "s", "e", "t", "=", "u", "t", "f", "-", "8">>

\* res.status(code).send(text): Express sets Content-Type when none is set and
\* Content-Length, writes head and body and ends the response
Send(r, code, text) ==
    [statusCode |-> code,
     headers |-> [k \in DOMAIN r.headers \cup {"content-type", "content-length"} |->
                    IF k = "content-length" THEN Dec(Len(text))
                    ELSE IF k \in DOMAIN r.headers THEN r.headers[k]
                    ELSE TEXT_HTML_UTF8],
     headersSent |-> TRUE, finished |-> TRUE,
     body |-> r.body \o text, sends |-> Append(r.sends, code)]

\* res.write(chunk), as proxyRes.pipe(res) calls it: the head goes out with the first
Write(r, chunk) == [r EXCEPT !.headersSent = TRUE, !.body = @ \o chunk]

\* res.end(data)
End(r, data) == [r EXCEPT !.headersSent = TRUE, !.finished = TRUE,
                          !.body = @ \o data, !.sends = Append(@, r.statusCode)]

\* res.removeHeader(name)
RemoveHeader(r, name) ==
    [r EXCEPT !.headers = [k \in DOMAIN r.headers \ {name} |-> r.headers[k]]]

INVALID_PROXY_PATH == <<"I", "n", "v", "a", "l", "i", "d", " ", "p", "r", "o", "x", "y", " ", "p", "a", "t", "h">>
GAME_SERVER_UNAVAILABLE == <<"G", "a", "m", "e", " ", "s", "e", "r", "v", "e", "r", " ", "u", "n", "a", "v", "a", "i", "l", "a", "b", "l", "e">>

ProviderOf(url) ==
    IF Mounted("jili", url) THEN "jili" ELSE IF Mounted("pp", url) THEN "pp" ELSE "none"

\* getJiliOutboundAgent without the test of the host
getJiliOutboundAgent_anyHost(hostname) ==
    IF ~OUTBOUND_PROXY_URL THEN "undefined" ELSE "_jiliProxyAgent"

\* getJiliOutboundAgent(hostname)
getJiliOutboundAgent(hostname) ==
    IF ~OUTBOUND_PROXY_URL THEN "undefined"
    ELSE IF hostname = EMPTY \/ ~EndsWith(hostname, JILI_COM) THEN "undefined"
    ELSE "_jiliProxyAgent"

\* targetPathDir of the handlers
TargetPathDir(m) ==
    LET t == TargetPathWithoutQuery(m)
        d == SubSeq(t, 1, LastIndexOf(t, "/"))
    IN  IF EndsWith(t, <<"/">>) THEN t ELSE IF d = EMPTY THEN <<"/">> ELSE d

DEFAULT_UA == <<"M", "o", "z", "i", "l", "l", "a", "/", "5", ".", "0">>
DEFAULT_ACCEPT == <<"*", "/", "*">>
DEFAULT_LANG == <<"e", "n", "-", "U", "S", ",", "e", "n", ";", "q", "=", "0", ".", "9">>
IDENTITY == <<"i", "d", "e", "n", "t", "i", "t", "y">>
HTTPS_ORIGIN == <<"h", "t", "t", "p", "s", ":", "/", "/">>

HeaderOr(h, name, default) ==
    IF name \in DOMAIN h /\ h[name] # EMPTY THEN h[name] ELSE default

\* OutboundHeaders that passes the Referer of the client on
OutboundHeaders_clientReferer(targetHost, h) ==
    LET names == {"user-agent", "accept", "accept-language", "accept-encoding",
                  "referer", "origin"}
                 \cup (IF "cookie" \in DOMAIN h /\ h["cookie"] # EMPTY THEN {"cookie"}
                       ELSE {})
    IN  [k \in names |->
            CASE k = "user-agent" -> HeaderOr(h, "user-agent", DEFAULT_UA)
              [] k = "accept" -> HeaderOr(h, "accept", DEFAULT_ACCEPT)
              [] k = "accept-language" -> HeaderOr(h, "accept-language", DEFAULT_LANG)
              [] k = "accept-encoding" -> IDENTITY
              [] k = "referer" -> HeaderOr(h, "referer", HTTPS_ORIGIN \o targetHost \o <<"/">>)
              [] k = "origin" -> HTTPS_ORIGIN \o targetHost
              [] k = "cookie" -> h["cookie"]]

\* options.headers of the outbound request
OutboundHeaders(targetHost, h) ==
    LET names == {"user-agent", "accept", "accept-language", "accept-encoding",
                  "referer", "origin"}
                 \cup (IF "cookie" \in DOMAIN h /\ h["cookie"] # EMPTY THEN {"cookie"}
                       ELSE {})
    IN  [k \in names |->
            CASE k = "user-agent" -> HeaderOr(h, "user-agent", DEFAULT_UA)
              [] k = "accept" -> HeaderOr(h, "accept", DEFAULT_ACCEPT)
              [] k = "accept-language" -> HeaderOr(h, "accept-language", DEFAULT_LANG)
              [] k = "accept-encoding" -> IDENTITY
              [] k = "referer" -> HTTPS_ORIGIN \o targetHost \o <<"/">>
              [] k = "origin" -> HTTPS_ORIGIN \o targetHost
              [] k = "cookie" -> h["cookie"]]

\* the options object handed to https.request
Options(p, m, r) ==
    [hostname |-> m.host,
     path     |-> TargetPathWithoutQuery(m) \o m.query,
     method   |-> r.method,
     agent    |-> IF p = "jili" THEN getJiliOutboundAgent(m.host) ELSE "insecureAgent",
     headers  |-> OutboundHeaders(m.host, r.headers)]

NoOptions == [hostname |-> EMPTY, path |-> EMPTY, method |-> "none",
              agent |-> "undefined", headers |-> EmptyFn]

NoProxyReq == [state |-> "none", options |-> NoOptions, errorPending |-> FALSE,
               piped |-> FALSE]

\* proxyRes: bytes are the chunks the upstream sends, body those not yet read
NoProxyRes == [statusCode |-> 0, headers |-> EmptyFn, bytes |-> <<>>, body |-> <<>>,
               html |-> FALSE]

\* the concatenation of a sequence of chunks
RECURSIVE Concat(_)
Concat(cs) == IF cs = <<>> THEN EMPTY ELSE Head(cs) \o Concat(Tail(cs))

FwdIdle ==
    /\ req = [method |-> "none", url |-> EMPTY, headers |-> EmptyFn]
    /\ reqStream = "open"
    /\ proxyReq = NoProxyReq
    /\ proxyRes = NoProxyRes
    /\ res = FreshRes
    /\ chunks = <<>>
    /\ upstreamCreated = 0
    /\ errLog = 0

\* the resolver returned or threw nothing yet
NoResult == [kind |-> "none", proxyPath |-> EMPTY, demoUrl |-> EMPTY, error |-> EMPTY,
             cause |-> "none"]

\* no await has settled yet
NoOutcome == [kind |-> "none", statusCode |-> 0, headers |-> EmptyFn, body |-> EMPTY,
              class |-> "none", message |-> EMPTY]

PlayIdle ==
    /\ route = "none"
    /\ param = EMPTY
    /\ step = "idle"
    /\ targetUrl = EMPTY
    /\ loopI = 0
    /\ calls = 0
    /\ callAgent = "none"
    /\ got = NoOutcome
    /\ result = NoResult

RewriteIdle ==
    /\ rwBody = EMPTY
    /\ rwHost = EMPTY
    /\ rwOut = <<>>

ImgIdle ==
    /\ disk = EmptyFn
    /\ img = EmptyFn

NavIdle == trail = <<>>

NoCall == [n |-> 0, state |-> "none", read |-> 0, left |-> 0, outcome |-> NoOutcome]

GetIdle == call = NoCall

ExtraIdle == RewriteIdle /\ ImgIdle /\ NavIdle /\ GetIdle

CodecIdle ==
    /\ provider = "none"
    /\ fullUrl = EMPTY
    /\ proxied = NoPath
    /\ decoded = NoMatch

----------------------------------------------------------------------------
(* Catch-all middleware: requests no route answered                        *)

\* req.path: the request target up to its query
ReqPath(url) == SubSeq(url, 1, FirstOf(url, {"?"}) - 1)

GAME_HTML == <<"/", "g", "a", "m", "e", ".", "h", "t", "m", "l">>

\* the path prefixes the catch-all leaves to next()
OwnPrefixes == { <<"/", "a", "p", "i", "/">>, <<"/", "p", "r", "o", "x", "y", "/">>, <<"/", "p", "l", "a", "y", "/">>, JILI_PREFIX \o <<"/">>, PP_PREFIX \o <<"/">>,
                 <<"/", "c", "a", "t", "a", "l", "o", "g", "/">>, <<"/", "c", "s", "s", "/">>, <<"/", "j", "s", "/">>, <<"/", "i", "m", "a", "g", "e", "s", "/">> }

\* the test that ends in return next()
IsOwnPath(path) ==
    \/ path \in {<<"/">>, GAME_HTML}
    \/ \E pre \in OwnPrefixes : StartsWith(path, pre)

NoRef == [ok |-> FALSE, host |-> EMPTY]

\* /PREFIX\/([a-zA-Z0-9.-]*SUFFIX)/ tried at the start of s: the star is greedy, so the
\* host group is the longest run of class characters that ends with a suffix
MatchRefAt(p, s) ==
    LET lead == Prefix(p) \o <<"/">>
        rest == From(s, Len(lead) + 1)
        ends == {n \in 0..RunLen(rest, HostClass) : HostAllowed(p, SubSeq(rest, 1, n))}
    IN  IF StartsWith(s, lead) /\ ends # {}
        THEN [ok |-> TRUE, host |-> SubSeq(rest, 1, CHOOSE n \in ends : \A k \in ends : n >= k)]
        ELSE NoRef

\* ref.match(...) without the g flag: the leftmost position where the pattern matches
RECURSIVE RefMatch(_, _)
RefMatch(p, ref) ==
    IF ref = EMPTY THEN NoRef
    ELSE IF MatchRefAt(p, ref).ok THEN MatchRefAt(p, ref)
    ELSE RefMatch(p, Tail(ref))

\* CatchAllTarget deaf to the Referer: always the default host
CatchAllTarget_noReferer(ref) == JILI_PREFIX \o <<"/">> \o JILI_COM

\* CatchAllTarget that puts no slash between the prefix and the host
CatchAllTarget_noSeparator(ref) ==
    LET ppRefMatch == RefMatch("pp", ref)
        refMatch   == RefMatch("jili", ref)
    IN  IF ppRefMatch.ok THEN PP_PREFIX \o ppRefMatch.host
        ELSE JILI_PREFIX \o (IF refMatch.ok THEN refMatch.host ELSE JILI_COM)

\* prefix and host the catch-all redirects under: a PP segment of the Referer first,
\* then a JILI segment, then the default host
CatchAllTarget(ref) ==
    LET ppRefMatch == RefMatch("pp", ref)
        refMatch   == RefMatch("jili", ref)
    IN  IF ppRefMatch.ok THEN PP_PREFIX \o <<"/">> \o ppRefMatch.host
        ELSE JILI_PREFIX \o <<"/">> \o (IF refMatch.ok THEN refMatch.host ELSE JILI_COM)

HexDigits == Digits \cup {"a", "b", "c", "d", "e", "f", "A", "B", "C", "D", "E", "F"}

\* the sequences of ss one after the other
RECURSIVE Flat(_)
Flat(ss) ==
    IF Len(ss) = 0 THEN EMPTY
    ELSE IF Len(ss) = 1 THEN ss[1]
    ELSE Flat(SubSeq(ss, 1, Len(ss) \div 2)) \o Flat(SubSeq(ss, Len(ss) \div 2 + 1, Len(ss)))

\* the characters of the model that encodeUrl escapes, with their escapes
Escapes == [c \in {"\"", " ", "<", ">", "%"} |->
              CASE c = "\"" -> <<"%", "2", "2">>
                [] c = " " -> <<"%", "2", "0">>
                [] c = "<" -> <<"%", "3", "C">>
                [] c = ">" -> <<"%", "3", "E">>
                [] c = "%" -> <<"%", "2", "5">>]

\* encodeURI of the characters of s, each on its own
EscapeEach(s) == Flat([n \in 1..Len(s) |-> IF s[n] \in DOMAIN Escapes THEN Escapes[s[n]]
                                            ELSE <<s[n]>>])

\* how many characters the pattern %(?:[^0-9A-Fa-f]|[0-9A-Fa-f][^0-9A-Fa-f]|$) takes
\* of s, which starts with a percent sign; 0 when it does not match
BadEscapeLen(s) ==
    IF Len(s) = 1 THEN 1
    ELSE IF s[2] \notin HexDigits THEN 2
    ELSE IF Len(s) >= 3 /\ s[3] \notin HexDigits THEN 3
    ELSE 0

\* encodeUrl(url) of res.location: url.replace(ENCODE_CHARS_REGEXP, encodeURI), where
\* the pattern takes the characters that are no URL code points and the percent
\* signs that start no escape, with the one or two characters it read after them
RECURSIVE EncodeUrl(_)
EncodeUrl(s) ==
    LET k == FirstOf(s, {"%"})
    IN  IF k > Len(s) THEN EscapeEach(s)
        ELSE LET n == BadEscapeLen(From(s, k))
             IN  EscapeEach(SubSeq(s, 1, k - 1))
                 \o (IF n = 0 THEN <<"%">> \o EncodeUrl(From(s, k + 1))
                     ELSE EscapeEach(SubSeq(s, k, k + n - 1)) \o EncodeUrl(From(s, k + n)))

\* statuses.message[status] + '. Redirecting to '
RedirectText(code) ==
    IF code = 307 THEN <<"T", "e", "m", "p", "o", "r", "a", "r", "y", " ", "R", "e", "d", "i", "r", "e", "c", "t", ".", " ", "R", "e", "d", "i", "r", "e", "c", "t", "i", "n", "g", " ", "t", "o", " ">> ELSE <<"F", "o", "u", "n", "d", ".", " ", "R", "e", "d", "i", "r", "e", "c", "t", "i", "n", "g", " ", "t", "o", " ">>
TEXT_PLAIN_UTF8 == <<"t", "e", "x", "t", "/", "p", "l", "a", "i", "n", ";", " ", "c", "h", "a", "r", "s", "e", "t", "=", "u", "t", "f", "-", "8">>

\* res.redirect(code, url) for a client that sends no Accept header: Location, the
\* plain-text body, and the response ended
RedirectTo(r, code, loc) ==
    [statusCode |-> code,
     headers |-> [k \in DOMAIN r.headers \cup {"location", "content-type", "content-length"} |->
                    CASE k = "location" -> loc
                      [] k = "content-type" -> TEXT_PLAIN_UTF8
                      [] k = "content-length" -> Dec(Len(RedirectText(code)) + Len(loc))
                      [] OTHER -> r.headers[k]],
     headersSent |-> TRUE, finished |-> TRUE,
     body |-> r.body \o RedirectText(code) \o loc, sends |-> Append(r.sends, code)]

\* res.redirect(code, url): this.location(url) encodes the address
Redirect(r, code, url) == RedirectTo(r, code, EncodeUrl(url))

----------------------------------------------------------------------------
(* Outbound calls of the resolvers: httpsGet, httpsGetInsecure and         *)
(* httpsPostSimple settle with a response or reject with an error          *)

Resp(code, hdrs, body) ==
    [kind |-> "response", statusCode |-> code, headers |-> hdrs, body |-> body,
     class |-> "none", message |-> EMPTY]

Err(class, msg) ==
    [kind |-> "error", statusCode |-> 0, headers |-> EmptyFn, body |-> EMPTY,
     class |-> class, message |-> msg]

\* req.on('error', reject): the errors of the transport, with the messages Node gives them
TransportErrors(hostname) ==
    { Err("refused", <<"c", "o", "n", "n", "e", "c", "t", " ", "E", "C", "O", "N", "N", "R", "E", "F", "U", "S", "E", "D", " ", "1", ".", "2", ".", "3", ".", "4", ":", "4", "4", "3">>),
      Err("timedout", <<"c", "o", "n", "n", "e", "c", "t", " ", "E", "T", "I", "M", "E", "D", "O", "U", "T", " ", "1", ".", "2", ".", "3", ".", "4", ":", "4", "4", "3">>),
      Err("notfound", <<"g", "e", "t", "a", "d", "d", "r", "i", "n", "f", "o", " ", "E", "N", "O", "T", "F", "O", "U", "N", "D", " ">> \o hostname),
      Err("hangup", <<"s", "o", "c", "k", "e", "t", " ", "h", "a", "n", "g", " ", "u", "p">>),
      Err("reset", <<"r", "e", "a", "d", " ", "E", "C", "O", "N", "N", "R", "E", "S", "E", "T">>),
      Err("tls", <<"c", "e", "r", "t", "i", "f", "i", "c", "a", "t", "e", " ", "h", "a", "s", " ", "e", "x", "p", "i", "r", "e", "d">>) }

\* req.setTimeout(ms, () => { req.destroy(); reject(new Error('Timeout')) })
RequestTimeout == Err("timeout", <<"T", "i", "m", "e", "o", "u", "t">>)

\* what new URL(text) throws for a text that is no URL
INVALID_URL == <<"I", "n", "v", "a", "l", "i", "d", " ", "U", "R", "L">>

\* /a|b|.../i.test(s)
TestAny(alts, s) == \E a \in alts : Includes(Lower(s), Lower(a))

\* /ECONNREFUSED|ETIMEDOUT|ENOTFOUND|Timeout/i of the play route
PlayNetworkRe == { <<"E", "C", "O", "N", "N", "R", "E", "F", "U", "S", "E", "D">>, <<"E", "T", "I", "M", "E", "D", "O", "U", "T">>, <<"E", "N", "O", "T", "F", "O", "U", "N", "D">>, <<"T", "i", "m", "e", "o", "u", "t">> }

\* /ECONNREFUSED|ETIMEDOUT|ENOTFOUND|Timeout|socket hang up/i of the API route
ApiNetworkRe == PlayNetworkRe \cup { <<"s", "o", "c", "k", "e", "t", " ", "h", "a", "n", "g", " ", "u", "p">> }

NoGroup == [ok |-> FALSE, group |-> EMPTY]

\* /LEAD([^Q]+)Q/i tried at the start of s
QuotedAt(s, lead, q) ==
    LET rest == From(s, Len(lead) + 1)
        n    == RunLenNot(rest, {q})
    IN  IF /\ Len(s) >= Len(lead)
           /\ Lower(SubSeq(s, 1, Len(lead))) = Lower(lead)
           /\ n >= 1
           /\ Len(rest) > n
        THEN [ok |-> TRUE, group |-> SubSeq(rest, 1, n)]
        ELSE NoGroup

\* s.match(/LEAD([^Q]+)Q/i): the leftmost match
RECURSIVE FindQuoted(_, _, _)
FindQuoted(s, lead, q) ==
    IF s = EMPTY THEN NoGroup
    ELSE IF QuotedAt(s, lead, q).ok THEN QuotedAt(s, lead, q)
    ELSE FindQuoted(Tail(s), lead, q)

URL_SQ == <<"u", "r", "l", "=", "'">>
URL_DQ == <<"u", "r", "l", "=", "\"">>
DATA_GAME_SRC == <<"d", "a", "t", "a", "-", "g", "a", "m", "e", "-", "s", "r", "c", "=", "\"">>

\* MetaMatch that tries the double-quoted pattern first
MetaMatch_doubleFirst(body) ==
    IF FindQuoted(body, URL_DQ, "\"").ok THEN FindQuoted(body, URL_DQ, "\"")
    ELSE FindQuoted(body, URL_SQ, "'")

\* step1.body.match(/url='([^']+)'/i) || step1.body.match(/url="([^"]+)"/i)
MetaMatch(body) ==
    IF FindQuoted(body, URL_SQ, "'").ok THEN FindQuoted(body, URL_SQ, "'")
    ELSE FindQuoted(body, URL_DQ, "\"")

AMP_ENTITY == <<"&", "a", "m", "p", ";">>

\* s.replace(/&amp;/g, '&')
RECURSIVE ReplaceAmp(_)
ReplaceAmp(s) ==
    IF s = EMPTY THEN EMPTY
    ELSE IF StartsWith(s, AMP_ENTITY) THEN <<"&">> \o ReplaceAmp(From(s, Len(AMP_ENTITY) + 1))
    ELSE <<Head(s)>> \o ReplaceAmp(Tail(s))

\* the characters application/x-www-form-urlencoded leaves as they are
FormSafe == Letters \cup Digits \cup {"*", "-", ".", "_"}

\* percent escapes of the other characters of the model
HexEscapes == [c \in {":", "/", "'", "=", "&", "?", "\"", "(", ")", ",", "%", "+", " "} |->
                 CASE c = ":" -> <<"%", "3", "A">>
                   [] c = "/" -> <<"%", "2", "F">>
                   [] c = "'" -> <<"%", "2", "7">>
                   [] c = "=" -> <<"%", "3", "D">>
                   [] c = "&" -> <<"%", "2", "6">>
                   [] c = "?" -> <<"%", "3", "F">>
                   [] c = "\"" -> <<"%", "2", "2">>
                   [] c = "(" -> <<"%", "2", "8">>
                   [] c = ")" -> <<"%", "2", "9">>
                   [] c = "," -> <<"%", "2", "C">>
                   [] c = "%" -> <<"%", "2", "5">>
                   [] c = "+" -> <<"%", "2", "B">>
                   [] c = " " -> <<"%", "2", "0">>]

\* the serialisation of one name or value by URLSearchParams.prototype.toString
FormEncode(s) ==
    Flat([n \in 1..Len(s) |-> IF s[n] \in FormSafe THEN <<s[n]>>
                              ELSE IF s[n] = " " THEN <<"+">>
                              ELSE HexEscapes[s[n]]])

\* new URLSearchParams({...}).toString(), pairs in insertion order
RECURSIVE QueryString(_)
QueryString(pairs) ==
    IF pairs = <<>> THEN EMPTY
    ELSE FormEncode(Head(pairs)[1]) \o <<"=">> \o FormEncode(Head(pairs)[2])
         \o (IF Len(pairs) > 1 THEN <<"&">> ELSE EMPTY) \o QueryString(Tail(pairs))

\* encodeURIComponent(s)
EncodeURIComponent(s) ==
    Flat([n \in 1..Len(s) |->
            IF s[n] \in Letters \cup Digits \cup {"-", "_", ".", "!", "~", "*", "'", "(", ")"}
            THEN <<s[n]>> ELSE HexEscapes[s[n]]])

\* JSON.stringify of a string, without its quotes
JsonChars(s) ==
    Flat([n \in 1..Len(s) |-> IF s[n] \in {"\"", "\\"} THEN <<"\\", s[n]>> ELSE <<s[n]>>])

\* JSON.stringify of an object whose values are strings, keys in insertion order
RECURSIVE JsonMembers(_)
JsonMembers(pairs) ==
    IF pairs = <<>> THEN EMPTY
    ELSE <<"\"">> \o JsonChars(Head(pairs)[1]) \o <<"\"", ":", "\"">> \o JsonChars(Head(pairs)[2])
         \o <<"\"">> \o (IF Len(pairs) > 1 THEN <<",">> ELSE EMPTY) \o JsonMembers(Tail(pairs))

JsonStringify(pairs) == <<"{">> \o JsonMembers(pairs) \o <<"}">>

APPLICATION_JSON == <<"a", "p", "p", "l", "i", "c", "a", "t", "i", "o", "n", "/", "j", "s", "o", "n", ";", " ", "c", "h", "a", "r", "s", "e", "t", "=", "u", "t", "f", "-", "8">>

\* res.status(code).json(obj)
JsonText(r, code, text) ==
    [statusCode |-> code,
     headers |-> [k \in DOMAIN r.headers \cup {"content-type", "content-length"} |->
                    IF k = "content-length" THEN Dec(Len(text))
                    ELSE IF k \in DOMAIN r.headers THEN r.headers[k]
                    ELSE APPLICATION_JSON],
     headersSent |-> TRUE, finished |-> TRUE,
     body |-> r.body \o text, sends |-> Append(r.sends, code)]

\* res.status(code).json(obj)
Json(r, code, pairs) == JsonText(r, code, JsonStringify(pairs))

\* res.setHeader(name, value)
SetHeader(r, name, value) ==
    [r EXCEPT !.headers = [k \in DOMAIN r.headers \cup {name} |->
                             IF k = name THEN value ELSE r.headers[k]]]

----------------------------------------------------------------------------
(* Resolvers: resolveGameUrl, resolvePPGameUrl, resolveJokerGameUrl        *)

\* return { error }
Returned(msg) == [NoResult EXCEPT !.kind = "error", !.error = msg]

\* an exception with message msg; cause tells what raised it
Thrown(msg, cause) == [NoResult EXCEPT !.kind = "thrown", !.error = msg, !.cause = cause]

\* return { proxyPath, demoUrl }
Resolved(path, demo) == [NoResult EXCEPT !.kind = "ok", !.proxyPath = path, !.demoUrl = demo]

\* how a resolver goes on after an await: with a further outbound call, or it ends
CallNext(url) == [kind |-> "call", url |-> url, result |-> NoResult]
Done(r) == [kind |-> "done", url |-> EMPTY, result |-> r]

\* `https://jiligames.com/PlusTrial/${gameId}/en-us`
PlusTrialUrl(gameId) == <<"h", "t", "t", "p", "s", ":", "/", "/", "j", "i", "l", "i", "g", "a", "m", "e", "s", ".", "c", "o", "m", "/", "P", "l", "u", "s", "T", "r", "i", "a", "l", "/">> \o gameId \o <<"/", "e", "n", "-", "u", "s">>

\* `https://www.pragmaticplay.com/en/games/${slug}/?gamelang=en&cur=THB`
PPPageUrl(slug) == <<"h", "t", "t", "p", "s", ":", "/", "/", "w", "w", "w", ".", "p", "r", "a", "g", "m", "a", "t", "i", "c", "p", "l", "a", "y", ".", "c", "o", "m", "/", "e", "n", "/", "g", "a", "m", "e", "s", "/">> \o slug \o <<"/", "?", "g", "a", "m", "e", "l", "a", "n", "g", "=", "e", "n", "&", "c", "u", "r", "=", "T", "H", "B">>

JOKER_ORIGIN == <<"h", "t", "t", "p", "s", ":", "/", "/", "w", "w", "w", ".", "j", "o", "k", "e", "r", "1", "2", "3", ".", "n", "e", "t">>

\* `https://www.joker123.net/Service/PlayFreeGame?gameCode=${encodeURIComponent(gameCode)}`
JokerApiUrl(gameCode) == JOKER_ORIGIN \o <<"/", "S", "e", "r", "v", "i", "c", "e", "/", "P", "l", "a", "y", "F", "r", "e", "e", "G", "a", "m", "e", "?", "g", "a", "m", "e", "C", "o", "d", "e", "=">> \o EncodeURIComponent(gameCode)

maxRedirects == 5

NO_REDIRECT_URL == <<"C", "o", "u", "l", "d", " ", "n", "o", "t", " ", "f", "i", "n", "d", " ", "g", "a", "m", "e", " ", "r", "e", "d", "i", "r", "e", "c", "t", " ", "U", "R", "L">>
UNEXPECTED_RESPONSE == <<"G", "a", "m", "e", " ", "s", "e", "r", "v", "e", "r", " ", "r", "e", "t", "u", "r", "n", "e", "d", " ", "u", "n", "e", "x", "p", "e", "c", "t", "e", "d", " ", "r", "e", "s", "p", "o", "n", "s", "e">>
NO_PROXY_PATH == <<"C", "o", "u", "l", "d", " ", "n", "o", "t", " ", "c", "o", "n", "v", "e", "r", "t", " ", "g", "a", "m", "e", " ", "U", "R", "L", " ", "t", "o", " ", "p", "r", "o", "x", "y", " ", "p", "a", "t", "h">>
PP_STATUS == <<"P", "P", " ", "r", "e", "t", "u", "r", "n", "e", "d", " ", "s", "t", "a", "t", "u", "s", " ">>
PP_NO_DEMO_URL == <<"C", "o", "u", "l", "d", " ", "n", "o", "t", " ", "f", "i", "n", "d", " ", "d", "e", "m", "o", " ", "g", "a", "m", "e", " ", "U", "R", "L", " ", "o", "n", " ", "P", "P", " ", "p", "a", "g", "e">>
PP_NO_PROXY_PATH == <<"C", "o", "u", "l", "d", " ", "n", "o", "t", " ", "c", "o", "n", "v", "e", "r", "t", " ", "P", "P", " ", "d", "e", "m", "o", " ", "U", "R", "L", " ", "t", "o", " ", "p", "r", "o", "x", "y", " ", "p", "a", "t", "h">>
JOKER_STATUS == <<"J", "o", "k", "e", "r", " ", "A", "P", "I", " ", "r", "e", "t", "u", "r", "n", "e", "d", " ", "s", "t", "a", "t", "u", "s", " ">>
JOKER_INVALID_JSON == <<"I", "n", "v", "a", "l", "i", "d", " ", "J", "S", "O", "N", " ", "f", "r", "o", "m", " ", "J", "o", "k", "e", "r", " ", "A", "P", "I">>
JOKER_NO_GAME_URL == <<"J", "o", "k", "e", "r", " ", "A", "P", "I", " ", "r", "e", "t", "u", "r", "n", "e", "d", " ", "n", "o", " ", "G", "a", "m", "e", "U", "r", "l">>
NULL_SUCCESS == <<"C", "a", "n", "n", "o", "t", " ", "r", "e", "a", "d", " ", "p", "r", "o", "p", "e", "r", "t", "i", "e", "s", " ", "o", "f", " ", "n", "u", "l", "l", " ", "(", "r", "e", "a", "d", "i", "n", "g", " ", "'", "S", "u", "c", "c", "e", "s", "s", "'", ")">>
NOT_A_FUNCTION == <<"g", "a", "m", "e", "U", "r", "l", ".", "s", "t", "a", "r", "t", "s", "W", "i", "t", "h", " ", "i", "s", " ", "n", "o", "t", " ", "a", " ", "f", "u", "n", "c", "t", "i", "o", "n">>

\* resp.headers.location, when it is there and not empty
HasLocation(out) == "location" \in DOMAIN out.headers /\ out.headers["location"] # EMPTY

\* AfterStep1 that takes a failed call for a page without the redirect
AfterStep1_swallow(out) ==
    IF out.kind = "error" \/ ~MetaMatch(out.body).ok THEN Done(Returned(NO_REDIRECT_URL))
    ELSE CallNext(ReplaceAmp(MetaMatch(out.body).group))

\* resolveGameUrl from the first await to the second
AfterStep1(out) ==
    IF out.kind = "error" THEN Done(Thrown(out.message, out.class))
    ELSE IF ~MetaMatch(out.body).ok THEN Done(Returned(NO_REDIRECT_URL))
    ELSE CallNext(ReplaceAmp(MetaMatch(out.body).group))

\* resolveGameUrl from toProxyPath(finalUrl) to its return
JiliResult(proxyPath) ==
    IF proxyPath.kind = "path" THEN Done(Resolved(proxyPath.path, EMPTY))
    ELSE Done(Returned(NO_PROXY_PATH))

\* AfterStep3 that takes the login URL as final for every status without a Location
AfterStep3_anyStatus(out, loginTrialUrl) ==
    IF out.kind = "error" THEN Done(Thrown(out.message, out.class))
    ELSE IF out.statusCode >= 300 /\ out.statusCode < 400 /\ HasLocation(out)
         THEN JiliResult(toProxyPath(out.headers["location"]))
    ELSE JiliResult(toProxyPath(loginTrialUrl))

\* AfterStep3 that asks for the login URL again when the call failed
AfterStep3_again(out, loginTrialUrl) ==
    IF out.kind = "error" THEN CallNext(loginTrialUrl)
    ELSE IF out.statusCode >= 300 /\ out.statusCode < 400 /\ HasLocation(out)
         THEN JiliResult(toProxyPath(out.headers["location"]))
    ELSE IF out.statusCode = 200 THEN JiliResult(toProxyPath(loginTrialUrl))
    ELSE Done(Returned(UNEXPECTED_RESPONSE))

\* resolveGameUrl from the second await to its return
AfterStep3(out, loginTrialUrl) ==
    IF out.kind = "error" THEN Done(Thrown(out.message, out.class))
    ELSE IF out.statusCode >= 300 /\ out.statusCode < 400 /\ HasLocation(out)
         THEN JiliResult(toProxyPath(out.headers["location"]))
    ELSE IF out.statusCode = 200 THEN JiliResult(toProxyPath(loginTrialUrl))
    ELSE Done(Returned(UNEXPECTED_RESPONSE))

HTTP == <<"h", "t", "t", "p">>

\* the URL text, and whether new URL accepts it: [ok, href]
Parsed(text) == [ok |-> ParseURL(text).ok, href |-> text]

\* what new URL(loc, base) parses, for the scheme and the parsed form b of the base:
\* loc when it is absolute, else loc against the scheme, the origin or the directory
Resolve(loc, absolute, scheme, b) ==
    IF absolute THEN loc
    ELSE IF StartsWith(loc, <<"/", "/">>) THEN scheme \o <<":">> \o loc
    ELSE IF StartsWith(loc, <<"/">>) THEN scheme \o <<":", "/", "/">> \o b.hostname \o loc
    ELSE scheme \o <<":", "/", "/">> \o b.hostname
         \o SubSeq(b.pathname, 1, LastIndexOf(b.pathname, "/")) \o loc

\* new URL(loc, base).href for a base the model has parsed: [ok, href]
Href(loc, base) ==
    Parsed(Resolve(loc, ParseURL(loc).ok, Lower(SubSeq(base, 1, RunLen(base, SchemeChars))),
                   ParseURL(base)))

\* loc.startsWith('http') ? loc : new URL(loc, base).href
FollowUrl(loc, base) ==
    IF StartsWith(loc, HTTP) THEN [ok |-> TRUE, href |-> loc] ELSE Href(loc, base)

\* resolvePPGameUrl from demoUrl to its return
PPResult(demoUrl, proxyPath) ==
    IF proxyPath.kind = "path" THEN Resolved(proxyPath.path, demoUrl)
    ELSE Returned(PP_NO_PROXY_PATH)

\* resolvePPGameUrl from srcMatch[1] to its return
PPDemo(group) == PPResult(ReplaceAmp(group), toPPProxyPath(ReplaceAmp(group)))

\* resolvePPGameUrl after its loop
PPParse(resp) ==
    IF resp.statusCode >= 400 THEN Returned(PP_STATUS \o Dec(resp.statusCode))
    ELSE IF ~FindQuoted(resp.body, DATA_GAME_SRC, "\"").ok THEN Returned(PP_NO_DEMO_URL)
    ELSE PPDemo(FindQuoted(resp.body, DATA_GAME_SRC, "\"").group)

\* the end of a round of the loop of resolvePPGameUrl that follows a redirect to nxt
PPContinue(out, nxt, n) ==
    IF ~nxt.ok THEN Done(Thrown(INVALID_URL, "TypeError"))
    ELSE IF n + 1 < maxRedirects THEN CallNext(nxt.href)
    ELSE Done(PPParse(out))

\* resolvePPGameUrl from the await of round n of its loop
PPAfter(out, ppPageUrl, n) ==
    IF out.kind = "error" THEN Done(Thrown(out.message, out.class))
    ELSE IF out.statusCode \in {301, 302} /\ HasLocation(out)
         THEN PPContinue(out, FollowUrl(out.headers["location"], ppPageUrl), n)
    ELSE Done(PPParse(out))

\* what JSON.parse gives for the bodies of the model
JsonInvalid == [kind |-> "invalid", Success |-> FALSE, Message |-> EMPTY,
                Data |-> FALSE, GameUrl |-> [type |-> "undefined", text |-> EMPTY]]
JsonNull == [JsonInvalid EXCEPT !.kind = "null"]
JsonObject(success, message, data, urlType, urlText) ==
    [kind |-> "object", Success |-> success, Message |-> message, Data |-> data,
     GameUrl |-> [type |-> urlType, text |-> urlText]]

JOKER_BODY_NULL == <<"n", "u", "l", "l">>
JOKER_BODY_EMPTY == <<"{", "}">>
JOKER_BODY_FAIL == <<"{", "\"", "S", "u", "c", "c", "e", "s", "s", "\"", ":", "f", "a", "l", "s", "e", ",", "\"", "M", "e", "s", "s", "a", "g", "e", "\"", ":", "\"", "C", "o", "n", "n", "e", "c", "t", "i", "o", "n", " ", "t", "i", "m", "e", "o", "u", "t", ",", " ", "t", "r", "y", " ", "l", "a", "t", "e", "r", "\"", "}">>
JOKER_BODY_NODATA == <<"{", "\"", "S", "u", "c", "c", "e", "s", "s", "\"", ":", "t", "r", "u", "e", "}">>
JOKER_BODY_ABS == <<"{", "\"", "S", "u", "c", "c", "e", "s", "s", "\"", ":", "t", "r", "u", "e", ",", "\"", "D", "a", "t", "a", "\"", ":", "{", "\"", "G", "a", "m", "e", "U", "r", "l", "\"", ":", "\"", "h", "t", "t", "p", "s", ":", "/", "/", "g", ".", "j", "o", "k", "e", "r", "1", "2", "3", ".", "n", "e", "t", "/", "x", "\"", "}", "}">>
JOKER_BODY_ROOT == <<"{", "\"", "S", "u", "c", "c", "e", "s", "s", "\"", ":", "t", "r", "u", "e", ",", "\"", "D", "a", "t", "a", "\"", ":", "{", "\"", "G", "a", "m", "e", "U", "r", "l", "\"", ":", "\"", "/", "x", "\"", "}", "}">>
JOKER_BODY_REL == <<"{", "\"", "S", "u", "c", "c", "e", "s", "s", "\"", ":", "t", "r", "u", "e", ",", "\"", "D", "a", "t", "a", "\"", ":", "{", "\"", "G", "a", "m", "e", "U", "r", "l", "\"", ":", "\"", "x", "\"", "}", "}">>
JOKER_BODY_NUM == <<"{", "\"", "S", "u", "c", "c", "e", "s", "s", "\"", ":", "t", "r", "u", "e", ",", "\"", "D", "a", "t", "a", "\"", ":", "{", "\"", "G", "a", "m", "e", "U", "r", "l", "\"", ":", "5", "}", "}">>
JOKER_BODY_BAD == <<"{", "\"", "S", "u", "c", "c", "e", "s", "s", "\"", ":", "t", "r", "u", "e", ",", "\"", "D", "a", "t", "a", "\"", ":", "{", "\"", "G", "a", "m", "e", "U", "r", "l", "\"", ":", "\"", "h", "t", "t", "p", "\"", "}", "}">>

\* JSON.parse(resp.body)
JsonParse(body) ==
    CASE body = JOKER_BODY_NULL -> JsonNull
      [] body = JOKER_BODY_EMPTY -> JsonObject(FALSE, EMPTY, FALSE, "undefined", EMPTY)
      [] body = JOKER_BODY_FAIL -> JsonObject(FALSE, <<"C", "o", "n", "n", "e", "c", "t", "i", "o", "n", " ", "t", "i", "m", "e", "o", "u", "t", ",", " ", "t", "r", "y", " ", "l", "a", "t", "e", "r">>, FALSE, "undefined", EMPTY)
      [] body = JOKER_BODY_NODATA -> JsonObject(TRUE, EMPTY, FALSE, "undefined", EMPTY)
      [] body = JOKER_BODY_ABS -> JsonObject(TRUE, EMPTY, TRUE, "string", <<"h", "t", "t", "p", "s", ":", "/", "/", "g", ".", "j", "o", "k", "e", "r", "1", "2", "3", ".", "n", "e", "t", "/", "x">>)
      [] body = JOKER_BODY_ROOT -> JsonObject(TRUE, EMPTY, TRUE, "string", <<"/", "x">>)
      [] body = JOKER_BODY_REL -> JsonObject(TRUE, EMPTY, TRUE, "string", <<"x">>)
      [] body = JOKER_BODY_NUM -> JsonObject(TRUE, EMPTY, TRUE, "number", <<"5">>)
      [] body = JOKER_BODY_BAD -> JsonObject(TRUE, EMPTY, TRUE, "string", <<"h", "t", "t", "p">>)
      [] OTHER -> JsonInvalid

\* 'https://www.joker123.net' + (gameUrl.startsWith('/') ? '' : '/') + gameUrl, unless
\* gameUrl starts with http
JokerGameUrl(g) ==
    IF StartsWith(g, HTTP) THEN g
    ELSE JOKER_ORIGIN \o (IF StartsWith(g, <<"/">>) THEN EMPTY ELSE <<"/">>) \o g

\* resolveJokerGameUrl from JSON.parse to its loop
JokerParsed(json) ==
    IF json.kind = "invalid" THEN Done(Returned(JOKER_INVALID_JSON))
    ELSE IF json.kind = "null" THEN Done(Thrown(NULL_SUCCESS, "TypeError"))
    ELSE IF ~json.Success \/ ~json.Data \/ json.GameUrl.type = "undefined"
         THEN Done(Returned(IF json.Message # EMPTY THEN json.Message ELSE JOKER_NO_GAME_URL))
    ELSE IF json.GameUrl.type # "string" THEN Done(Thrown(NOT_A_FUNCTION, "TypeError"))
    ELSE CallNext(JokerGameUrl(json.GameUrl.text))

\* JokerPostAfter without the test of the status
JokerPostAfter_anyStatus(out) ==
    IF out.kind = "error" THEN Done(Thrown(out.message, out.class))
    ELSE JokerParsed(JsonParse(out.body))

\* resolveJokerGameUrl from the await of the POST to its loop
JokerPostAfter(out) ==
    IF out.kind = "error" THEN Done(Thrown(out.message, out.class))
    ELSE IF out.statusCode # 200 THEN Done(Returned(JOKER_STATUS \o Dec(out.statusCode)))
    ELSE JokerParsed(JsonParse(out.body))

\* the end of a round of the loop of resolveJokerGameUrl that follows a redirect to nxt
JokerContinue(nxt, n) ==
    IF ~nxt.ok THEN Done(Thrown(INVALID_URL, "TypeError"))
    ELSE IF n + 1 < maxRedirects THEN CallNext(nxt.href)
    ELSE Done(Resolved(EMPTY, nxt.href))

\* resolveJokerGameUrl from the await of round n of its loop
JokerGetAfter(out, gameUrl, n) ==
    IF out.kind = "error" THEN Done(Thrown(out.message, out.class))
    ELSE IF out.statusCode \in {301, 302} /\ HasLocation(out)
         THEN JokerContinue(FollowUrl(out.headers["location"], gameUrl), n)
    ELSE Done(Resolved(EMPTY, gameUrl))

----------------------------------------------------------------------------
(* The routes that answer with what a resolver returned                    *)

UpperChar(c) ==
    IF c \in Range(LOWER) THEN UPPER[CHOOSE n \in 1..26 : LOWER[n] = c] ELSE c

WordChars == Letters \cup Digits \cup {"_"}

\* slug.replace(/-/g, ' ').replace(/\b\w/g, c => c.toUpperCase())
PPGameName(slug) ==
    LET s == [n \in 1..Len(slug) |-> IF slug[n] = "-" THEN " " ELSE slug[n]]
    IN  [n \in 1..Len(s) |->
            IF s[n] \in WordChars /\ (n = 1 \/ s[n - 1] \notin WordChars)
            THEN UpperChar(s[n]) ELSE s[n]]

\* code.replace(/([A-Z])/g, ' $1')
RECURSIVE SpaceCapitals(_)
SpaceCapitals(s) ==
    IF s = EMPTY THEN EMPTY
    ELSE (IF Head(s) \in Range(UPPER) THEN <<" ", Head(s)>> ELSE <<Head(s)>>)
         \o SpaceCapitals(Tail(s))

\* s.trim(), for the blanks of the model
RECURSIVE TrimEnd(_)
TrimEnd(s) == IF s # EMPTY /\ s[Len(s)] = " " THEN TrimEnd(SubSeq(s, 1, Len(s) - 1)) ELSE s
Trim(s) == TrimEnd(From(s, RunLen(s, {" "}) + 1))

\* code.replace(/([A-Z])/g, ' $1').replace(/GW$/, '').trim()
JokerGameName(code) ==
    LET s == SpaceCapitals(code)
    IN  Trim(IF EndsWith(s, <<"G", "W">>) THEN SubSeq(s, 1, Len(s) - 2) ELSE s)

\* the page of /play/pp/:slug and /play/joker/:code: the texts around the game name
\* and the iframe address, which is put in as it is
IframePage(brand, gameName, demoUrl) ==
    <<"<", "t", "i", "t", "l", "e", ">">> \o gameName \o <<" ", "-", " ">> \o brand \o <<" ", "D", "e", "m", "o", "<", "/", "t", "i", "t", "l", "e", ">", "<", "s", "p", "a", "n", ">">> \o gameName
    \o <<"<", "/", "s", "p", "a", "n", ">", "<", "i", "f", "r", "a", "m", "e", " ", "s", "r", "c", "=", "\"">> \o demoUrl \o <<"\"", " ", "r", "e", "f", "e", "r", "r", "e", "r", "p", "o", "l", "i", "c", "y", "=", "\"", "n", "o", "-", "r", "e", "f", "e", "r", "r", "e", "r", "\"", ">", "<", "/", "i", "f", "r", "a", "m", "e", ">">>

PRAGMATIC_PLAY == <<"P", "r", "a", "g", "m", "a", "t", "i", "c", " ", "P", "l", "a", "y">>
JOKER_GAMING == <<"J", "o", "k", "e", "r", " ", "G", "a", "m", "i", "n", "g">>

HINT_PLAY == <<"S", "e", "t", " ", "O", "U", "T", "B", "O", "U", "N", "D", "_", "P", "R", "O", "X", "Y", "_", "U", "R", "L", " ", "i", "f", " ", "s", "e", "r", "v", "e", "r", " ", "i", "s", " ", "i", "n", " ", "b", "l", "o", "c", "k", "e", "d", " ", "r", "e", "g", "i", "o", "n", ".">>
HINT_API == <<"S", "e", "r", "v", "e", "r", " ", "m", "a", "y", " ", "b", "e", " ", "i", "n", " ", "T", "h", "a", "i", "l", "a", "n", "d", ".", " ", "S", "e", "t", " ", "O", "U", "T", "B", "O", "U", "N", "D", "_", "P", "R", "O", "X", "Y", "_", "U", "R", "L", " ", "i", "n", " ", ".", "e", "n", "v", " ", "(", "p", "r", "o", "x", "y", " ", "o", "u", "t", "s", "i", "d", "e", " ", "T", "h", "a", "i", "l", "a", "n", "d", ")", " ", "a", "n", "d", " ", "r", "e", "s", "t", "a", "r", "t", ".">>
FAILED_PLAY == <<"F", "a", "i", "l", "e", "d", " ", "t", "o", " ", "r", "e", "s", "o", "l", "v", "e", ":", " ">>
FAILED_API == <<"F", "a", "i", "l", "e", "d", " ", "t", "o", " ", "r", "e", "s", "o", "l", "v", "e", " ", "g", "a", "m", "e", " ", "U", "R", "L", ":", " ">>
GAME_HTML_QUERY == GAME_HTML \o <<"?">>
NO_STORE == <<"n", "o", "-", "s", "t", "o", "r", "e">>
KEY_URL == <<"u", "r", "l">>
KEY_ERROR == <<"e", "r", "r", "o", "r">>
KEY_HINT == <<"h", "i", "n", "t">>
KEY_ID == <<"i", "d">>
KEY_PROVIDER == <<"p", "r", "o", "v", "i", "d", "e", "r">>
PLAY_JILI == <<"/", "p", "l", "a", "y", "/", "j", "i", "l", "i", "/">>

\* { error: msg, ...(hint && { hint }) }
ErrorBody(msg, hint) ==
    << <<KEY_ERROR, msg>> >> \o (IF hint THEN << <<KEY_HINT, HINT_API>> >> ELSE <<>>)

\* ApiRespond with a hint for every failure when no egress proxy is set
ApiRespond_hintAlways(r, rs) ==
    IF rs.kind = "ok" THEN Json(r, 200, << <<KEY_URL, rs.proxyPath>> >>)
    ELSE Json(r, 500, ErrorBody(IF rs.kind = "thrown" THEN FAILED_API \o rs.error ELSE rs.error,
                                ~OUTBOUND_PROXY_URL))

\* app.get('/api/game-url/:id'): what it answers for what resolveGameUrl returned or threw
ApiRespond(r, rs) ==
    IF rs.kind = "ok" THEN Json(r, 200, << <<KEY_URL, rs.proxyPath>> >>)
    ELSE Json(r, 500, ErrorBody(IF rs.kind = "thrown" THEN FAILED_API \o rs.error ELSE rs.error,
                                TestAny(ApiNetworkRe, rs.error) /\ ~OUTBOUND_PROXY_URL))

\* the redirect to the error page of the play routes
ErrorRedirect(r, id, providerPairs, msg, hint) ==
    Redirect(r, 302, GAME_HTML_QUERY
                     \o QueryString(<< <<KEY_ID, id>> >> \o providerPairs \o << <<KEY_ERROR, msg>> >>
                                    \o (IF hint THEN << <<KEY_HINT, HINT_PLAY>> >> ELSE <<>>)))

\* app.get('/play/jili/:id')
JiliRespond(r, gameId, rs) ==
    IF rs.kind = "ok" THEN Redirect(r, 302, rs.proxyPath)
    ELSE ErrorRedirect(r, gameId, <<>>,
                       IF rs.kind = "thrown" THEN FAILED_PLAY \o rs.error ELSE rs.error,
                       TestAny(PlayNetworkRe, rs.error) /\ ~OUTBOUND_PROXY_URL)

\* res.setHeader('Content-Type', ...); res.setHeader('Cache-Control', 'no-store'); res.send(html)
SendPage(r, html) ==
    Send(SetHeader(SetHeader(r, "content-type", TEXT_HTML_UTF8), "cache-control", NO_STORE),
         200, html)

\* PPRespond with a redirect to the proxy path in place of the page
PPRespond_redirect(r, slug, rs) ==
    IF rs.kind = "ok" THEN Redirect(r, 302, rs.proxyPath)
    ELSE ErrorRedirect(r, slug, << <<KEY_PROVIDER, <<"p", "p">> >> >>,
                       IF rs.kind = "thrown" THEN FAILED_PLAY \o rs.error ELSE rs.error, FALSE)

\* app.get('/play/pp/:slug')
PPRespond(r, slug, rs) ==
    IF rs.kind = "ok" THEN SendPage(r, IframePage(PRAGMATIC_PLAY, PPGameName(slug), rs.demoUrl))
    ELSE ErrorRedirect(r, slug, << <<KEY_PROVIDER, <<"p", "p">> >> >>,
                       IF rs.kind = "thrown" THEN FAILED_PLAY \o rs.error ELSE rs.error, FALSE)

\* app.get('/play/joker/:code')
JokerRespond(r, code, rs) ==
    IF rs.kind = "ok" THEN SendPage(r, IframePage(JOKER_GAMING, JokerGameName(code), rs.demoUrl))
    ELSE ErrorRedirect(r, code, << <<KEY_PROVIDER, <<"j", "o", "k", "e", "r">> >> >>,
                       IF rs.kind = "thrown" THEN FAILED_PLAY \o rs.error ELSE rs.error, FALSE)

\* the answer of route rt
Respond(rt, r, id, rs) ==
    CASE rt = "api" -> ApiRespond(r, rs)
      [] rt = "jili" -> JiliRespond(r, id, rs)
      [] rt = "pp" -> PPRespond(r, id, rs)
      [] rt = "joker" -> JokerRespond(r, id, rs)

----------------------------------------------------------------------------
(* The codec on its own: an URL text is encoded by toProxyPath or          *)
(* toPPProxyPath, and the path it returns is requested from the forwarder  *)
(* of that provider, which decodes it with its path grammar.               *)

SchemeParts == { <<"h", "t", "t", "p", "s", ":", "/", "/">>,
                 <<"H", "T", "T", "P", ":", "/", "/">>,
                 <<"h", "t", "t", "p", "s", ":">>,
                 <<"/", "/">>,
                 EMPTY }

HostPrefixChars == {"a", "_", ".", "-"}

HostTails == { JILI_COM,
               <<"j", "i", "l", "i", "g", "a", "m", "e", "s", ".", "c", "o">>,
               PP_NET, PP_COM, <<"e", "v", "i", "l", "-">> \o JILI_COM }

PortParts == { EMPTY, <<":", "8">> }

RestChars == {"/", "x", "?", "#"}

UrlInputs ==
    { sch \o pre \o tl \o port \o rest :
        sch \in SchemeParts, pre \in SeqsUpTo(HostPrefixChars, MaxHostPrefix),
        tl \in HostTails, port \in PortParts, rest \in SeqsUpTo(RestChars, MaxRest) }

InitCodec ==
    /\ pc = "codec"
    /\ provider = "none"
    /\ fullUrl \in UrlInputs
    /\ proxied = NoPath
    /\ decoded = NoMatch
    /\ OUTBOUND_PROXY_URL = FALSE
    /\ FwdIdle
    /\ PlayIdle
    /\ ExtraIdle

\* a caller evaluates toProxyPath(fullUrl)
CallToProxyPath ==
    /\ pc = "codec"
    /\ provider' = "jili"
    /\ proxied' = toProxyPath(fullUrl)
    /\ pc' = "encoded"
    /\ UNCHANGED <<fullUrl, decoded, OUTBOUND_PROXY_URL, fwdVars, playVars, extraVars>>

\* a caller evaluates toPPProxyPath(fullUrl)
CallToPPProxyPath ==
    /\ pc = "codec"
    /\ provider' = "pp"
    /\ proxied' = toPPProxyPath(fullUrl)
    /\ pc' = "encoded"
    /\ UNCHANGED <<fullUrl, decoded, OUTBOUND_PROXY_URL, fwdVars, playVars, extraVars>>

\* the returned path is requested: the provider's forwarder matches req.url
DecodeProxyPath ==
    /\ pc = "encoded"
    /\ proxied.kind = "path"
    /\ Mounted(provider, proxied.path)
    /\ decoded' = PathMatch(provider, MountedUrl(provider, proxied.path))
    /\ pc' = "decoded"
    /\ UNCHANGED <<provider, fullUrl, proxied, OUTBOUND_PROXY_URL, fwdVars, playVars, extraVars>>

NextCodec == CallToProxyPath \/ CallToPPProxyPath \/ DecodeProxyPath

SpecCodec == InitCodec /\ [][NextCodec]_vars

(* C1: for every absolute URL whose hostname ends with an allowed suffix,  *)
(* the forwarder's path grammar accepts the path toProxyPath returned and  *)
(* decodes it to exactly the URL's host, path and query.                   *)
RoundTrip ==
    pc = "decoded" =>
        LET u == ParseURL(fullUrl)
        IN  /\ decoded.ok
            /\ decoded.host = u.hostname
            /\ TargetPathWithoutQuery(decoded) = u.pathname
            /\ decoded.query = u.search

\* the case of C1: an URL on an allowed host was encoded and its path requested
RoundTripRejected ==
    /\ pc = "decoded"
    /\ ~decoded.ok

\* the round trip on the hosts the forwarder's host class can express
RoundTripHostClass ==
    (pc = "decoded" /\ \A i \in 1..Len(ParseURL(fullUrl).hostname) :
                            ParseURL(fullUrl).hostname[i] \in HostClass) =>
        LET u == ParseURL(fullUrl)
        IN  /\ decoded.ok
            /\ decoded.host = u.hostname
            /\ TargetPathWithoutQuery(decoded) = u.pathname
            /\ decoded.query = u.search

(* C2: toProxyPath and toPPProxyPath return null for every input that does *)
(* not parse as an absolute URL and for every input whose hostname does    *)
(* not end with one of the provider's suffixes, and never throw.           *)
SuffixExclusion ==
    pc = "encoded" =>
        /\ proxied.kind \in {"path", "null"}
        /\ LET u == ParseURL(fullUrl)
           IN  (~u.ok \/ \A suf \in Suffixes(provider) : ~EndsWith(u.hostname, suf))
                   => proxied.kind = "null"

\* a case of C2: toPPProxyPath answered null for an URL of another provider's host
SuffixExclusionWitness ==
    /\ pc = "encoded"
    /\ proxied.kind = "null"
    /\ provider = "pp"
    /\ ParseURL(fullUrl).ok
    /\ EndsWith(ParseURL(fullUrl).hostname, JILI_COM)

----------------------------------------------------------------------------
(* The forwarder: one inbound request under /jili or /pp-proxy, the events *)
(* of its upstream request and response, and the events of the inbound     *)
(* request stream.                                                         *)

FwdHosts == { JILI_COM, <<"a", ".">> \o JILI_COM, <<"_">> \o JILI_COM,
              <<"j", "i", "l", "i", "g", "a", "m", "e", "s", ".", "c", "o">>, PP_NET, <<"x">> }

FwdRests == { EMPTY, <<"/">>, <<"/", "x">>, <<"?", "x">>, <<"/", "x", "?", "x">>, <<"_">> }

FwdUrls ==
    { Prefix(p) \o <<"/">> \o h \o r : p \in Providers, h \in FwdHosts, r \in FwdRests }
    \cup { Prefix(p) : p \in Providers }

FwdMethods == {"GET", "POST"}

FwdHeaderSets ==
    { EmptyFn,
      [k \in {"user-agent", "cookie", "referer"} |->
          CASE k = "user-agent" -> <<"U", "A">>
            [] k = "cookie" -> <<"c", "=", "1">>
            [] k = "referer" -> <<"h", "t", "t", "p", ":", "/", "/", "e", "v", "i", "l", "/">>] }

CHUNK_HEAD == <<"<", "h", "e", "a", "d", ">">>
CHUNK_URL == <<"h", "t", "t", "p", "s", ":", "/", "/", "j", "i", "l", "i", "g", "a", "m", "e", "s", ".", "c", "o", "m", "/", "x", "\"">>

CHUNK_BARE == <<"h", "t", "t", "p", "s", ":", "/", "/", "j", "i", "l", "i", "g", "a", "m", "e", "s", ".", "c", "o", "m", "\"">>

ChunkSet == {CHUNK_HEAD, CHUNK_URL, CHUNK_BARE}

COOKIE_SID == <<"s", "i", "d", "=", "1", ";", " ", "D", "o", "m", "a", "i", "n", "=", "x", ".", "c", "o", "m", ";", " ", "P", "a", "t", "h", "=", "/">>

\* the status and headers an upstream answers with
UpstreamHeads ==
    { [statusCode |-> 200,
       headers |-> [k \in {"content-type", "content-length", "set-cookie",
                           "x-frame-options"} |->
                      CASE k = "content-type" -> <<"T", "e", "x", "t", "/", "H", "T", "M", "L">>
                        [] k = "content-length" -> <<"9">>
                        [] k = "set-cookie" -> <<COOKIE_SID>>
                        [] k = "x-frame-options" -> <<"D", "E", "N", "Y">>]],
      [statusCode |-> 200,
       headers |-> [k \in {"content-type", "content-length"} |->
                      IF k = "content-type" THEN <<"i", "m", "a", "g", "e", "/", "p", "n", "g">> ELSE <<"9">>]],
      [statusCode |-> 302,
       headers |-> [k \in {"location"} |-> <<"h", "t", "t", "p", "s", ":", "/", "/", "a", ".", "j", "i", "l", "i", "g", "a", "m", "e", "s", ".", "c", "o", "m", "/", "x">>]],
      [statusCode |-> 302,
       headers |-> [k \in {"location"} |-> <<"/", "x">>]],
      [statusCode |-> 404, headers |-> EmptyFn] }

UpstreamBodies == SeqsUpTo(ChunkSet, MaxChunks)

TEXT_HTML == <<"t", "e", "x", "t", "/", "h", "t", "m", "l">>

\* IsHtml that takes every response with a content type for HTML
IsHtml_anyType(headers) == "content-type" \in DOMAIN headers

\* (proxyRes.headers['content-type'] || '').toLowerCase().includes('text/html')
IsHtml(headers) ==
    "content-type" \in DOMAIN headers /\ Includes(Lower(headers["content-type"]), TEXT_HTML)

InitFwd ==
    /\ pc = "fwd"
    /\ CodecIdle
    /\ PlayIdle
    /\ ExtraIdle
    /\ OUTBOUND_PROXY_URL \in BOOLEAN
    /\ req \in [method : FwdMethods, url : FwdUrls, headers : FwdHeaderSets]
    /\ reqStream = "open"
    /\ proxyReq = NoProxyReq
    /\ proxyRes = NoProxyRes
    /\ res = FreshRes
    /\ chunks = <<>>
    /\ upstreamCreated = 0
    /\ errLog = 0

\* Forward without the return after the 400: the upstream request is made all the same
Forward_noReturn(p) ==
    LET m == PathMatch(p, MountedUrl(p, req.url))
    IN  /\ pc = "fwd"
        /\ ProviderOf(req.url) = p
        /\ pc' = "handled"
        /\ res' = IF ~m.ok THEN Send(res, 400, INVALID_PROXY_PATH) ELSE res
        /\ proxyReq' = [state |-> "inflight", options |-> Options(p, m, req),
                        errorPending |-> FALSE,
                        piped |-> req.method \in {"POST", "PUT", "PATCH"}]
        /\ upstreamCreated' = upstreamCreated + 1
        /\ UNCHANGED <<codecVars, playVars, extraVars, OUTBOUND_PROXY_URL, req, reqStream, proxyRes, chunks,
                       errLog>>

\* the body of both handlers up to proxyReq.end() / req.pipe(proxyReq)
Forward(p) ==
    LET m == PathMatch(p, MountedUrl(p, req.url))
    IN  /\ pc = "fwd"
        /\ ProviderOf(req.url) = p
        /\ pc' = "handled"
        /\ IF ~m.ok
           THEN /\ res' = Send(res, 400, INVALID_PROXY_PATH)
                /\ UNCHANGED <<proxyReq, upstreamCreated>>
           ELSE /\ proxyReq' = [state |-> "inflight", options |-> Options(p, m, req),
                                errorPending |-> FALSE,
                                piped |-> req.method \in {"POST", "PUT", "PATCH"}]
                /\ upstreamCreated' = upstreamCreated + 1
                /\ UNCHANGED res
        /\ UNCHANGED <<codecVars, playVars, extraVars, OUTBOUND_PROXY_URL, req, reqStream, proxyRes, chunks,
                       errLog>>

\* app.use('/jili', (req, res) => ...)
JiliForward == Forward("jili")

\* app.use('/pp-proxy', (req, res) => ...)
PPForward == Forward("pp")

\* the callback of https.request: status, header loop, CORS header, content-type dispatch
OnResponse(head, body) ==
    /\ proxyReq.state = "inflight"
    /\ proxyRes' = [statusCode |-> head.statusCode, headers |-> head.headers,
                    bytes |-> body, body |-> body, html |-> IsHtml(head.headers)]
    /\ res' = [res EXCEPT !.statusCode = head.statusCode,
                          !.headers = CopyHeaders(ProviderOf(req.url),
                                                  proxyReq.options.hostname,
                                                  res.headers, head.headers)]
    /\ proxyReq' = [proxyReq EXCEPT !.state = "response"]
    /\ UNCHANGED <<pc, codecVars, playVars, extraVars, OUTBOUND_PROXY_URL, req, reqStream, chunks,
                   upstreamCreated, errLog>>

\* the upstream answers the request
UpstreamResponse == \E head \in UpstreamHeads, body \in UpstreamBodies : OnResponse(head, body)

\* proxyRes 'data': chunks.push(chunk) for HTML, the pipe's res.write(chunk) otherwise
UpstreamData ==
    /\ proxyReq.state = "response"
    /\ proxyRes.body # <<>>
    /\ proxyRes' = [proxyRes EXCEPT !.body = Tail(@)]
    /\ IF proxyRes.html
       THEN chunks' = Append(chunks, Head(proxyRes.body)) /\ UNCHANGED res
       ELSE res' = Write(res, Head(proxyRes.body)) /\ UNCHANGED chunks
    /\ UNCHANGED <<pc, codecVars, playVars, extraVars, OUTBOUND_PROXY_URL, req, reqStream, proxyReq,
                   upstreamCreated, errLog>>

\* proxyRes 'end': rewrite and res.end(html) for HTML, the pipe's res.end() otherwise
UpstreamEnd ==
    /\ proxyReq.state = "response"
    /\ proxyRes.body = <<>>
    /\ proxyReq' = [proxyReq EXCEPT !.state = "ended"]
    /\ IF proxyRes.html
       THEN LET p == ProviderOf(req.url)
                m == PathMatch(p, MountedUrl(p, req.url))
                html == IF p = "jili"
                        THEN rewriteHtml(Concat(chunks), m.host, TargetPathDir(m))
                        ELSE rewritePPHtml(Concat(chunks), m.host, TargetPathDir(m))
            IN  IF res.headersSent
                THEN pc' = "uncaught" /\ UNCHANGED res  \* removeHeader throws
                ELSE pc' = pc /\ res' = End(RemoveHeader(res, "content-length"), html)
       ELSE pc' = pc /\ res' = End(res, EMPTY)
    /\ UNCHANGED <<codecVars, playVars, extraVars, OUTBOUND_PROXY_URL, req, reqStream, proxyRes, chunks,
                   upstreamCreated, errLog>>

\* OnProxyError without the test of res.headersSent
OnProxyError_noGuard ==
    /\ res' = Send(res, 502, GAME_SERVER_UNAVAILABLE)
    /\ errLog' = errLog + 1

\* proxyReq.on('error', ...)
OnProxyError ==
    /\ res' = IF ~res.headersSent THEN Send(res, 502, GAME_SERVER_UNAVAILABLE) ELSE res
    /\ errLog' = errLog + 1

\* the transport to the upstream fails: proxyReq emits 'error'
UpstreamError ==
    /\ proxyReq.state \in {"inflight", "response"}
    /\ proxyReq' = [proxyReq EXCEPT !.state = "destroyed"]
    /\ OnProxyError
    /\ UNCHANGED <<pc, codecVars, playVars, extraVars, OUTBOUND_PROXY_URL, req, reqStream, proxyRes, chunks,
                   upstreamCreated>>

\* OnClientClose that gives up once the upstream response has begun
OnClientClose_inflightOnly ==
    proxyReq' = IF proxyReq.state = "inflight"
                THEN [proxyReq EXCEPT !.state = "destroyed", !.errorPending = TRUE]
                ELSE proxyReq

\* OnClientClose that reports the error and leaves the upstream request running
OnClientClose_notDestroyed ==
    proxyReq' = IF proxyReq.state \in {"inflight", "response"}
                THEN [proxyReq EXCEPT !.errorPending = TRUE]
                ELSE proxyReq

\* onClientClose: proxyReq.destroy(); a request destroyed before its response emits
\* 'error' (socket hang up) afterwards
OnClientClose ==
    proxyReq' = IF proxyReq.state \in {"inflight", "response"}
                THEN [proxyReq EXCEPT !.state = "destroyed",
                                      !.errorPending = (proxyReq.state = "inflight")]
                ELSE proxyReq

\* req emits 'aborted'
ReqAborted ==
    /\ pc = "handled"
    /\ reqStream = "open"
    /\ reqStream' = "aborted"
    /\ IF upstreamCreated > 0 THEN OnClientClose ELSE UNCHANGED proxyReq
    /\ UNCHANGED <<pc, codecVars, playVars, extraVars, OUTBOUND_PROXY_URL, req, proxyRes, res, chunks,
                   upstreamCreated, errLog>>

\* req emits 'close'
ReqClose ==
    /\ pc = "handled"
    /\ reqStream \in {"open", "aborted"}
    /\ reqStream' = "closed"
    /\ IF upstreamCreated > 0 THEN OnClientClose ELSE UNCHANGED proxyReq
    /\ UNCHANGED <<pc, codecVars, playVars, extraVars, OUTBOUND_PROXY_URL, req, proxyRes, res, chunks,
                   upstreamCreated, errLog>>

\* the 'error' event of a destroyed request is delivered
DestroyedError ==
    /\ proxyReq.errorPending
    /\ proxyReq' = [proxyReq EXCEPT !.errorPending = FALSE]
    /\ OnProxyError
    /\ UNCHANGED <<pc, codecVars, playVars, extraVars, OUTBOUND_PROXY_URL, req, reqStream, proxyRes, chunks,
                   upstreamCreated>>

NextFwd ==
    \/ JiliForward
    \/ PPForward
    \/ UpstreamResponse
    \/ UpstreamData
    \/ UpstreamEnd
    \/ UpstreamError
    \/ ReqAborted
    \/ ReqClose
    \/ DestroyedError

SpecFwd == InitFwd /\ [][NextFwd]_vars

(* C3: a request under a proxy prefix whose remaining path does not match  *)
(* the {host}{path} grammar is answered 400, and no upstream request is    *)
(* ever created for it.                                                    *)
BadPathRejected ==
    LET p == ProviderOf(req.url)
    IN  (pc # "fwd" /\ p # "none" /\ ~PathMatch(p, MountedUrl(p, req.url)).ok) =>
            /\ res.statusCode = 400
            /\ res.sends = <<400>>
            /\ upstreamCreated = 0
            /\ proxyReq.state = "none"

\* a rejected request, after its connection closed
BadPathRejectedWitness ==
    /\ res.statusCode = 400
    /\ reqStream = "closed"
    /\ req.url = JILI_PREFIX \o <<"/", "_">> \o JILI_COM \o <<"/", "x">>

\* how many 502 responses were completed
Count502 == Cardinality({i \in 1..Len(res.sends) : res.sends[i] = 502})

(* C4: when the upstream request emits an error, the client gets exactly   *)
(* one 502 if nothing was sent to it before, and nothing at all is written *)
(* to it otherwise; the upstream request is never issued again.            *)
ErrorYieldsOne502 ==
    /\ [](Count502 <= 1 /\ upstreamCreated <= 1)
    /\ [][errLog' # errLog =>
            /\ upstreamCreated' = upstreamCreated
            /\ IF res.headersSent THEN res' = res
               ELSE /\ res'.statusCode = 502
                    /\ res'.sends = <<502>>
                    /\ res'.finished]_vars

\* an upstream error before anything was sent: the 502 went out
ErrorYieldsOne502Witness ==
    /\ errLog = 1
    /\ res.sends = <<502>>
    /\ proxyRes.statusCode = 200

(* C5: once the inbound request has emitted 'aborted' or 'close', its      *)
(* upstream request is not pending any more: it was destroyed, or it had   *)
(* ended before.                                                           *)
UpstreamDestroyedOnClose ==
    reqStream # "open" => proxyReq.state \notin {"inflight", "response"}

\* the client went away in the middle of the upstream response
UpstreamDestroyedOnCloseWitness ==
    /\ reqStream = "aborted"
    /\ proxyReq.state = "destroyed"
    /\ proxyRes.statusCode = 200
    /\ errLog = 0

----------------------------------------------------------------------------
(* The header loop on its own: one forwarded request whose upstream        *)
(* answers with a Location or a Set-Cookie header drawn from the sets      *)
(* below.                                                                  *)

MaxAttrs == 2

HdrUrls == { JILI_PREFIX \o <<"/", "a", ".">> \o JILI_COM \o <<"/", "x">>,
             PP_PREFIX \o <<"/", "x", ".">> \o PP_NET \o <<"/", "x">> }

LocSchemes == { HTTPS_SCHEME, HTTP_SCHEME, <<"H", "T", "T", "P", "S", ":", "/", "/">>, EMPTY }

LocHosts == { <<"a", ".">> \o JILI_COM, <<"e", "v", "i", "l", "-">> \o JILI_COM,
              <<"x", ".">> \o PP_NET, PP_COM, <<"u", "n", "r", "e", "l", "a", "t", "e", "d", ".", "c", "o", "m">>, EMPTY }

LocRestChars == {"/", "x", "?"}

LocationInputs ==
    { s \o h \o r : s \in LocSchemes, h \in LocHosts, r \in SeqsUpTo(LocRestChars, MaxRest) }
    \ {EMPTY}

UPSTREAM_DOMAIN == <<"u", "p", "s", "t", "r", "e", "a", "m", ".", "e", "x", "a", "m", "p", "l", "e", ".", "c", "o", "m">>

CookiePairs == { <<"s", "i", "d", "=", "1">>, <<"s", "u", "b", "d", "o", "m", "a", "i", "n", "=", "1">> }

CookieAttrs == { <<" ", "D", "o", "m", "a", "i", "n", "=">> \o UPSTREAM_DOMAIN,
                 <<" ", "d", "o", "m", "a", "i", "n", "=">> \o UPSTREAM_DOMAIN,
                 <<" ", "D", "O", "M", "A", "I", "N", "=">> \o UPSTREAM_DOMAIN,
                 <<" ", "P", "a", "t", "h", "=", "/">>, <<" ", "S", "e", "c", "u", "r", "e">> }

RECURSIVE JoinAttrs(_, _)
JoinAttrs(pair, attrs) ==
    IF attrs = <<>> THEN pair ELSE JoinAttrs(pair \o <<";">> \o Head(attrs), Tail(attrs))

CookieInputs == { JoinAttrs(c, as) : c \in CookiePairs, as \in SeqsUpTo(CookieAttrs, MaxAttrs) }

\* an upstream head with every header the loop tells apart, and two it does not
GuardedHead(ct) ==
    [statusCode |-> 200,
     headers |-> [k \in {"content-type", "content-length", "x-frame-options",
                         "x-content-type-options", "content-security-policy",
                         "content-security-policy-report-only", "cache-control",
                         "access-control-allow-origin"} |->
                    CASE k = "content-type" -> ct
                      [] k = "content-length" -> <<"9">>
                      [] k = "x-frame-options" -> <<"D", "E", "N", "Y">>
                      [] k = "x-content-type-options" -> <<"n", "o", "s", "n", "i", "f", "f">>
                      [] k = "cache-control" -> <<"n", "o", "-", "c", "a", "c", "h", "e">>
                      [] k = "access-control-allow-origin" -> <<"h", "t", "t", "p", "s", ":", "/", "/", "j", "i", "l", "i", "g", "a", "m", "e", "s", ".", "c", "o", "m">>
                      [] OTHER -> <<"d", "e", "f", "a", "u", "l", "t", "-", "s", "r", "c", " ", "'", "s", "e", "l", "f", "'">>]]

HeaderHeads ==
    { [statusCode |-> 302, headers |-> [k \in {"location"} |-> loc]] : loc \in LocationInputs }
    \cup { GuardedHead(ct) : ct \in { <<"T", "e", "x", "t", "/", "H", "T", "M", "L", ";", " ", "c", "h", "a", "r", "s", "e", "t", "=", "u", "t", "f", "-", "8">>, <<"i", "m", "a", "g", "e", "/", "p", "n", "g">> } }
    \cup { [statusCode |-> 200, headers |-> [k \in {"set-cookie"} |-> <<c>>]] : c \in CookieInputs }
    \cup { [statusCode |-> 200, headers |-> [k \in {"set-cookie"} |-> <<COOKIE_SID, c>>]] :
               c \in CookieInputs }

InitHdr ==
    /\ pc = "fwd"
    /\ CodecIdle
    /\ PlayIdle
    /\ ExtraIdle
    /\ OUTBOUND_PROXY_URL = FALSE
    /\ req \in [method : {"GET"}, url : HdrUrls, headers : {EmptyFn}]
    /\ reqStream = "open"
    /\ proxyReq = NoProxyReq
    /\ proxyRes = NoProxyRes
    /\ res = FreshRes
    /\ chunks = <<>>
    /\ upstreamCreated = 0
    /\ errLog = 0

\* the upstream answers with one of the heads above and no body
HeaderResponse == \E head \in HeaderHeads : OnResponse(head, <<>>)

NextHdr ==
    \/ JiliForward
    \/ PPForward
    \/ HeaderResponse
    \/ UpstreamEnd

SpecHdr == InitHdr /\ [][NextHdr]_vars

\* s cut at every occurrence of ch
RECURSIVE SplitOn(_, _)
SplitOn(s, ch) ==
    LET n == RunLenNot(s, {ch})
    IN  IF n = Len(s) THEN <<s>> ELSE <<SubSeq(s, 1, n)>> \o SplitOn(From(s, n + 2), ch)

\* the name of a cookie attribute: what precedes "=", without leading blanks, in lower case
AttrName(part) ==
    LET t == From(part, RunLen(part, {" "}) + 1)
    IN  Lower(SubSeq(t, 1, RunLenNot(t, {"="})))

\* cookie c without its Domain attributes: the name=value pair and every other attribute
\* stay as they are
WithoutDomainAttr(c) ==
    LET parts == SplitOn(c, ";")
        kept  == SelectSeq(Tail(parts), LAMBDA a : AttrName(a) # <<"d", "o", "m", "a", "i", "n">>)
    IN  JoinAttrs(Head(parts), kept)

SPEC_COOKIE_IN == <<"s", "i", "d", "=", "1", ";", " ", "D", "o", "m", "a", "i", "n", "=">> \o UPSTREAM_DOMAIN \o <<";", " ", "P", "a", "t", "h", "=", "/">>
SPEC_COOKIE_OUT == <<"s", "i", "d", "=", "1", ";", " ", "P", "a", "t", "h", "=", "/">>

(* C9: every Set-Cookie value sent to the client is the upstream value     *)
(* with its Domain attribute removed and nothing else altered; the value   *)
(* sid=1; Domain=upstream.example.com; Path=/ is sent as sid=1; Path=/.    *)
CookieOnlyDomainRemoved ==
    (proxyReq.state \in {"response", "ended"} /\ "set-cookie" \in DOMAIN proxyRes.headers) =>
        LET up   == proxyRes.headers["set-cookie"]
            down == res.headers["set-cookie"]
        IN  /\ Len(down) = Len(up)
            /\ \A i \in 1..Len(up) :
                  /\ down[i] = WithoutDomainAttr(up[i])
                  /\ up[i] = SPEC_COOKIE_IN => down[i] = SPEC_COOKIE_OUT

(* C10: an upstream Location is sent as its proxy path when it is an       *)
(* absolute URL on a host with the provider's suffix, as prefix, current   *)
(* target host and the Location when it starts with "/", and unchanged     *)
(* otherwise; the response carries one Location value.                     *)
LocationRewritten ==
    (proxyReq.state \in {"response", "ended"} /\ "location" \in DOMAIN proxyRes.headers) =>
        LET p    == ProviderOf(req.url)
            host == PathMatch(p, MountedUrl(p, req.url)).host
            loc  == proxyRes.headers["location"]
            u    == ParseURL(loc)
            out  == res.headers["location"]
        IN  /\ "location" \in DOMAIN res.headers
            /\ IF u.ok /\ \E sfx \in Suffixes(p) : EndsWith(u.hostname, sfx)
               THEN out = Prefix(p) \o <<"/">> \o u.hostname \o u.pathname \o u.search
               ELSE IF loc[1] = "/"
               THEN out = Prefix(p) \o <<"/">> \o host \o loc
               ELSE out = loc

\* a Location relative to the upstream host went out under the proxy prefix
LocationRewrittenWitness ==
    /\ proxyReq.state = "ended"
    /\ "location" \in DOMAIN proxyRes.headers
    /\ proxyRes.headers["location"] = <<"/", "x">>
    /\ res.headers["location"] = PP_PREFIX \o <<"/", "x", ".">> \o PP_NET \o <<"/", "x">>
    /\ res.finished

----------------------------------------------------------------------------
(* The catch-all on its own: one request that no route answered reaches   *)
(* the last middleware, with or without a Referer.                        *)

MaxRefSegs == 2

CatchPathChars == {"/", "x", "?", "\"", "%"}

\* request targets: short ones over the characters above, and some under the
\* application's own prefixes
CatchUrls ==
    { <<"/">> \o r : r \in SeqsUpTo(CatchPathChars, MaxRest) }
    \cup { GAME_HTML, GAME_HTML \o <<"?", "x">>, <<"/", "a", "p", "i", "/", "x">>, <<"/", "a", "p", "i", "x">>, <<"/", "p", "l", "a", "y", "/">>, <<"/", "c", "s", "s", "/", "x", "?", "x">>, <<"/", "j", "i", "l", "i", "x">>, <<"/", "i", "m", "a", "g", "e", "s">>,
           <<"/", "%", "2", "2">>, <<"/", "x", "%", "2">> }

REF_ORIGIN == <<"h", "t", "t", "p", "s", ":", "/", "/", "s", "i", "t", "e">>

RefSegs == { JILI_PREFIX \o <<"/", "a", ".">> \o JILI_COM,
             JILI_PREFIX \o <<"/">> \o JILI_COM \o <<"x">>,
             JILI_PREFIX \o <<"/", "_">> \o JILI_COM,
             PP_PREFIX \o <<"/", "x", ".">> \o PP_NET,
             PP_PREFIX \o <<"/">> \o PP_COM \o <<".">> \o PP_NET \o <<"-">>,
             <<"/", "x">> }

Referers == { REF_ORIGIN \o Concat(segs) : segs \in SeqsUpTo(RefSegs, MaxRefSegs) }

CatchHeaderSets == {EmptyFn} \cup { [k \in {"referer"} |-> r] : r \in Referers }

NOT_FOUND == <<"N", "o", "t", " ", "F", "o", "u", "n", "d">>

InitCatch ==
    /\ pc = "catchall"
    /\ CodecIdle
    /\ PlayIdle
    /\ ExtraIdle
    /\ OUTBOUND_PROXY_URL = FALSE
    /\ req \in [method : FwdMethods, url : CatchUrls, headers : CatchHeaderSets]
    /\ reqStream = "open"
    /\ proxyReq = NoProxyReq
    /\ proxyRes = NoProxyRes
    /\ res = FreshRes
    /\ chunks = <<>>
    /\ upstreamCreated = 0
    /\ errLog = 0

\* app.use((req, res, next) => ...), the last middleware: next() ends in the 404 of
\* Express, anything else in the 307
CatchAll ==
    /\ pc = "catchall"
    /\ IF IsOwnPath(ReqPath(req.url))
       THEN /\ pc' = "next"
            /\ res' = Send(res, 404, NOT_FOUND)
       ELSE LET ref == IF "referer" \in DOMAIN req.headers THEN req.headers["referer"]
                       ELSE EMPTY
            IN  /\ pc' = "redirected"
                /\ res' = Redirect(res, 307, CatchAllTarget(ref) \o req.url)
    /\ UNCHANGED <<codecVars, playVars, extraVars, OUTBOUND_PROXY_URL, req, reqStream, proxyReq, proxyRes,
                   chunks, upstreamCreated, errLog>>

NextCatch == CatchAll

SpecCatch == InitCatch /\ [][NextCatch]_vars

\* the hosts h for which the Referer holds PREFIX/h, h made of host characters and
\* ending with a suffix of provider p
RefSegments(p, ref) ==
    LET lead   == Prefix(p) \o <<"/">>
        starts == { i \in 1..Len(ref) : StartsWith(From(ref, i), lead) }
    IN  { h \in { SubSeq(ref, i + Len(lead), j) : i \in starts, j \in 1..Len(ref) } :
            /\ \A n \in 1..Len(h) : h[n] \in HostClass
            /\ HostAllowed(p, h) }

\* s with the escapes of the model decoded; anything else is left as it is
RECURSIVE PercentDecode(_)
PercentDecode(s) ==
    IF s = EMPTY THEN EMPTY
    ELSE IF Len(s) >= 3 /\ \E c \in DOMAIN Escapes : Escapes[c] = SubSeq(s, 1, 3)
         THEN <<CHOOSE c \in DOMAIN Escapes : Escapes[c] = SubSeq(s, 1, 3)>>
              \o PercentDecode(From(s, 4))
         ELSE <<Head(s)>> \o PercentDecode(Tail(s))

----------------------------------------------------------------------------
(* The resolving routes on their own: one request to /api/game-url/:id, to *)
(* a /play route of a provider or to /play/:id; every outbound call of the *)
(* resolver settles with one of the outcomes below.                        *)

PlayParams == { <<"6", "3", "7">>, <<"a", "-", "b">>, <<"F", "i", "s", "h", "G", "W">> }

API_GAME_URL == <<"/", "a", "p", "i", "/", "g", "a", "m", "e", "-", "u", "r", "l", "/">>
PLAY_PP == <<"/", "p", "l", "a", "y", "/", "p", "p", "/">>
PLAY_JOKER == <<"/", "p", "l", "a", "y", "/", "j", "o", "k", "e", "r", "/">>
PLAY == <<"/", "p", "l", "a", "y", "/">>

\* the routes in the order they are registered
RoutePrefixes == << <<"jili", PLAY_JILI>>, <<"pp", PLAY_PP>>, <<"joker", PLAY_JOKER>>,
                    <<"legacy", PLAY>>, <<"api", API_GAME_URL>> >>

\* the first route whose path pattern PREFIX:param matches, and its parameter
RouteOf(url) ==
    LET hits == { n \in 1..Len(RoutePrefixes) :
                    /\ StartsWith(url, RoutePrefixes[n][2])
                    /\ Len(url) > Len(RoutePrefixes[n][2])
                    /\ ~Includes(From(url, Len(RoutePrefixes[n][2]) + 1), <<"/">>) }
    IN  IF hits = {} THEN [route |-> "none", param |-> EMPTY]
        ELSE LET n == CHOOSE k \in hits : \A m \in hits : k <= m
             IN  [route |-> RoutePrefixes[n][1], param |-> From(url, Len(RoutePrefixes[n][2]) + 1)]

PlayUrls == { RoutePrefixes[n][2] \o p : n \in 1..Len(RoutePrefixes), p \in PlayParams }

Failures(url) == TransportErrors(ParseURL(url).hostname) \cup {RequestTimeout}

Loc(l) == [k \in {"location"} |-> l]

BODY_BOTH == <<"u", "r", "l", "=", "\"", "h", "t", "t", "p", "s", ":", "/", "/", "x", ".", "c", "o", "m", "/", "A", "\"", " ", "u", "r", "l", "=", "'", "h", "t", "t", "p", "s", ":", "/", "/", "j", "i", "l", "i", "g", "a", "m", "e", "s", ".", "c", "o", "m", "/", "B", "'">>
BODY_META == <<"<", "m", "e", "t", "a", " ", "c", "o", "n", "t", "e", "n", "t", "=", "\"", "0", ";", "u", "r", "l", "=", "'", "h", "t", "t", "p", "s", ":", "/", "/", "j", "i", "l", "i", "g", "a", "m", "e", "s", ".", "c", "o", "m", "/", "L", "'", "\"", ">">>

Step1Bodies == { BODY_BOTH, <<"<", "m", "e", "t", "a", " ", "c", "o", "n", "t", "e", "n", "t", "=", "\"", "0", ";", "u", "r", "l", "=", "'", "h", "t", "t", "p", "s", ":", "/", "/", "j", "i", "l", "i", "g", "a", "m", "e", "s", ".", "c", "o", "m", "/", "L", "?", "a", "&", "a", "m", "p", ";", "b", "'", "\"", ">">>, <<"U", "R", "L", "=", "\"", "h", "t", "t", "p", "s", ":", "/", "/", "x", ".", "c", "o", "m", "/", "L", "\"">>, <<"u", "r", "l", "=", "'", "n", "o", "u", "r", "l", "'">>, <<"u", "r", "l", "=", "'", "'">>, <<"<", "h", "t", "m", "l", ">">> }

Step1Outcomes(url) ==
    { Resp(200, EmptyFn, b) : b \in Step1Bodies }
    \cup { Resp(500, EmptyFn, BODY_META), Resp(404, EmptyFn, BODY_META),
           Resp(404, EmptyFn, <<"<", "h", "t", "m", "l", ">">>) }
    \cup Failures(url)

Step3Outcomes(url) ==
    { Resp(302, Loc(<<"h", "t", "t", "p", "s", ":", "/", "/", "a", ".", "j", "i", "l", "i", "g", "a", "m", "e", "s", ".", "c", "o", "m", "/", "g", "?", "k">>), EMPTY), Resp(302, Loc(<<"h", "t", "t", "p", "s", ":", "/", "/", "x", ".", "c", "o", "m", "/", "g">>), EMPTY), Resp(302, EmptyFn, EMPTY),
      Resp(301, Loc(EMPTY), EMPTY), Resp(200, EmptyFn, EMPTY), Resp(404, EmptyFn, EMPTY),
      Resp(500, EmptyFn, EMPTY), Resp(302, Loc(<<"/", "g", "/", "1">>), EMPTY),
      Resp(200, Loc(<<"h", "t", "t", "p", "s", ":", "/", "/", "x", ".", "c", "o", "m", "/", "g">>), EMPTY) } \cup Failures(url)

PP_BODY_DEMO == <<"<", "d", "i", "v", " ", "d", "a", "t", "a", "-", "g", "a", "m", "e", "-", "s", "r", "c", "=", "\"", "h", "t", "t", "p", "s", ":", "/", "/", "d", "e", "m", "o", ".", "p", "r", "a", "g", "m", "a", "t", "i", "c", "p", "l", "a", "y", ".", "n", "e", "t", "/", "g", "?", "a", "&", "a", "m", "p", ";", "b", "\"", ">">>
PP_BODY_OTHER == <<"<", "d", "i", "v", " ", "D", "A", "T", "A", "-", "G", "A", "M", "E", "-", "S", "R", "C", "=", "\"", "h", "t", "t", "p", "s", ":", "/", "/", "x", ".", "c", "o", "m", "/", "g", "\"", ">">>
PP_BODY_NONE == <<"<", "h", "t", "m", "l", ">">>

PPOutcomes(url) ==
    { Resp(302, Loc(<<"h", "t", "t", "p", "s", ":", "/", "/", "w", "w", "w", ".", "p", "r", "a", "g", "m", "a", "t", "i", "c", "p", "l", "a", "y", ".", "c", "o", "m", "/", "e", "n", "/", "g", "a", "m", "e", "s", "/", "x", "/">>), EMPTY), Resp(301, Loc(<<"/", "y">>), PP_BODY_DEMO),
      Resp(302, EmptyFn, PP_BODY_NONE), Resp(200, EmptyFn, PP_BODY_DEMO),
      Resp(200, EmptyFn, PP_BODY_OTHER), Resp(200, EmptyFn, PP_BODY_NONE),
      Resp(404, EmptyFn, PP_BODY_DEMO) } \cup Failures(url)

JokerPostOutcomes(url) ==
    { Resp(200, EmptyFn, b) :
        b \in { JOKER_BODY_NULL, JOKER_BODY_EMPTY, JOKER_BODY_FAIL, JOKER_BODY_NODATA,
                JOKER_BODY_ABS, JOKER_BODY_ROOT, JOKER_BODY_REL, JOKER_BODY_NUM,
                JOKER_BODY_BAD, PP_BODY_NONE } }
    \cup { Resp(500, EmptyFn, JOKER_BODY_ABS) } \cup Failures(url)

JokerGetOutcomes(url) ==
    { Resp(302, Loc(<<"h", "t", "t", "p", "s", ":", "/", "/", "g", ".", "j", "o", "k", "e", "r", "1", "2", "3", ".", "n", "e", "t", "/", "y">>), EMPTY), Resp(301, Loc(<<"/", "z">>), EMPTY), Resp(302, Loc(HTTP), EMPTY),
      Resp(200, EmptyFn, PP_BODY_NONE), Resp(500, EmptyFn, EMPTY) } \cup Failures(url)

InitPlay ==
    /\ pc = "route"
    /\ CodecIdle
    /\ PlayIdle
    /\ ExtraIdle
    /\ OUTBOUND_PROXY_URL \in BOOLEAN
    /\ req \in [method : {"GET"}, url : PlayUrls, headers : {EmptyFn}]
    /\ reqStream = "open"
    /\ proxyReq = NoProxyReq
    /\ proxyRes = NoProxyRes
    /\ res = FreshRes
    /\ chunks = <<>>
    /\ upstreamCreated = 0
    /\ errLog = 0

\* the agent of an outbound call of the resolver of route rt: httpsGet asks
\* getJiliOutboundAgent, httpsGetInsecure and httpsPostSimple make an https.Agent
ResolverAgent(rt, hostname) ==
    IF rt \in {"api", "jili"} THEN getJiliOutboundAgent(hostname) ELSE "insecureAgent"

\* the handler of route rt answers with what its resolver ended with
Answer(rt, id, rs) ==
    /\ pc' = "responded"
    /\ step' = "done"
    /\ result' = rs
    /\ res' = Respond(rt, res, id, rs)
    /\ UNCHANGED <<targetUrl, loopI, calls, callAgent>>

\* the handler of route rt runs on from an await (or from its start) with k: it issues
\* the next outbound call and suspends, or it answers; new URL() of the call throws
\* for a text that is no URL
Proceed(rt, id, k, nextStep, n) ==
    IF k.kind = "call" /\ ParseURL(k.url).ok
    THEN /\ pc' = "awaiting"
         /\ step' = nextStep
         /\ targetUrl' = k.url
         /\ loopI' = n
         /\ calls' = calls + 1
         /\ callAgent' = ResolverAgent(rt, ParseURL(k.url).hostname)
         /\ UNCHANGED <<res, result>>
    ELSE Answer(rt, id, IF k.kind = "call" THEN Thrown(INVALID_URL, "TypeError") ELSE k.result)

\* a handler from its start to its first await
Enter(rt, firstUrl, firstStep) ==
    /\ pc = "route"
    /\ RouteOf(req.url).route = rt
    /\ route' = rt
    /\ param' = RouteOf(req.url).param
    /\ Proceed(rt, RouteOf(req.url).param, CallNext(firstUrl), firstStep, 0)
    /\ UNCHANGED <<codecVars, extraVars, OUTBOUND_PROXY_URL, req, reqStream, proxyReq, proxyRes,
                   chunks, upstreamCreated, errLog, got>>

\* app.get('/api/game-url/:id')
ApiGameUrl == Enter("api", PlusTrialUrl(RouteOf(req.url).param), "step1")

\* app.get('/play/jili/:id')
PlayJili == Enter("jili", PlusTrialUrl(RouteOf(req.url).param), "step1")

\* app.get('/play/pp/:slug')
PlayPP == Enter("pp", PPPageUrl(RouteOf(req.url).param), "pp")

\* app.get('/play/joker/:code')
PlayJoker == Enter("joker", JokerApiUrl(RouteOf(req.url).param), "jokerPost")

\* app.get('/play/:id')
PlayLegacy ==
    /\ pc = "route"
    /\ RouteOf(req.url).route = "legacy"
    /\ pc' = "responded"
    /\ route' = "legacy"
    /\ param' = RouteOf(req.url).param
    /\ res' = Redirect(res, 302, PLAY_JILI \o RouteOf(req.url).param)
    /\ UNCHANGED <<codecVars, extraVars, OUTBOUND_PROXY_URL, req, reqStream, proxyReq, proxyRes,
                   chunks, upstreamCreated, errLog, step, targetUrl, loopI, calls,
                   callAgent, got, result>>

\* the awaited call settles with out and the handler runs on with k
Settle(atStep, out, k, nextStep, n) ==
    /\ pc = "awaiting"
    /\ step = atStep
    /\ got' = out
    /\ Proceed(route, param, k, nextStep, n)
    /\ UNCHANGED <<codecVars, extraVars, OUTBOUND_PROXY_URL, req, reqStream, proxyReq, proxyRes,
                   chunks, upstreamCreated, errLog, route, param>>

\* await httpsGet(`https://jiligames.com/PlusTrial/...`) settles
Step1Settles == \E out \in Step1Outcomes(targetUrl) : Settle("step1", out, AfterStep1(out), "step3", 0)

\* await httpsGet(loginTrialUrl) settles
Step3Settles ==
    \E out \in Step3Outcomes(targetUrl) : Settle("step3", out, AfterStep3(out, targetUrl), "done", 0)

\* await httpsGetInsecure(ppPageUrl) settles
PPGetSettles ==
    \E out \in PPOutcomes(targetUrl) :
        Settle("pp", out, PPAfter(out, targetUrl, loopI), "pp", loopI + 1)

\* await httpsPostSimple(apiUrl) settles
JokerPostSettles ==
    \E out \in JokerPostOutcomes(targetUrl) : Settle("jokerPost", out, JokerPostAfter(out), "jokerGet", 0)

\* await httpsGetInsecure(gameUrl) settles
JokerGetSettles ==
    \E out \in JokerGetOutcomes(targetUrl) :
        Settle("jokerGet", out, JokerGetAfter(out, targetUrl, loopI), "jokerGet", loopI + 1)

NextPlay ==
    \/ ApiGameUrl
    \/ PlayJili
    \/ PlayPP
    \/ PlayJoker
    \/ PlayLegacy
    \/ Step1Settles
    \/ Step3Settles
    \/ PPGetSettles
    \/ JokerPostSettles
    \/ JokerGetSettles

SpecPlay == InitPlay /\ [][NextPlay]_vars

----------------------------------------------------------------------------
(* What the answers of the resolving routes say, read back from the bytes   *)
(* sent                                                                     *)

\* the number of backslashes that stand directly before position n of s
BackslashesBefore(s, n) ==
    LET others == {j \in 1..(n - 1) : s[j] # "\\"}
    IN  IF others = {} THEN n - 1 ELSE n - 1 - (CHOOSE j \in others : \A m \in others : j >= m)

\* the string value of member name of the JSON object text: the set of the values the
\* text gives it (empty when the object has no such member)
JsonValues(text, name) ==
    LET lead   == <<"\"">> \o name \o <<"\"", ":", "\"">>
        starts == { n \in 1..Len(text) :
                      /\ StartsWith(From(text, n), lead)
                      /\ n > 1 /\ text[n - 1] \in {"{", ","}
                      /\ BackslashesBefore(text, n) % 2 = 0 }
        Close(n) == CHOOSE e \in (n + Len(lead))..Len(text) :
                      /\ text[e] = "\"" /\ BackslashesBefore(text, e) % 2 = 0
                      /\ \A m \in (n + Len(lead))..(e - 1) :
                            ~(text[m] = "\"" /\ BackslashesBefore(text, m) % 2 = 0)
        Inner(n)  == SubSeq(text, n + Len(lead), Close(n) - 1)
        Unescaped(v) == Flat([m \in 1..Len(v) |->
                            IF v[m] = "\\" /\ BackslashesBefore(v, m) % 2 = 0 THEN EMPTY
                            ELSE <<v[m]>>])
    IN  { Unescaped(Inner(n)) : n \in starts }

\* the characters of ASCII with the codes 32 to 95
ASCII_PRINTABLE == <<" ", "!", "\"", "#", "$", "%", "&", "'", "(", ")", "*", "+", ",", "-", ".", "/", "0", "1", "2", "3", "4", "5", "6", "7", "8", "9", ":", ";", "<", "=", ">", "?", "@", "A", "B", "C", "D", "E", "F", "G", "H", "I", "J", "K", "L", "M", "N", "O", "P", "Q", "R", "S", "T", "U", "V", "W", "X", "Y", "Z", "[", "\\", "]", "^", "_">>

HexValue(c) == (CHOOSE n \in 1..16 : <<"0", "1", "2", "3", "4", "5", "6", "7", "8", "9",
                                       "A", "B", "C", "D", "E", "F">>[n] = c) - 1

\* an application/x-www-form-urlencoded text decoded: + is a blank, %XX the character
\* of code XX
FormDecode(s) ==
    Flat([n \in 1..Len(s) |->
            IF s[n] = "%" THEN <<ASCII_PRINTABLE[16 * HexValue(s[n + 1]) + HexValue(s[n + 2]) - 31]>>
            ELSE IF (n > 1 /\ s[n - 1] = "%") \/ (n > 2 /\ s[n - 2] = "%") THEN EMPTY
            ELSE IF s[n] = "+" THEN <<" ">>
            ELSE <<s[n]>>])

\* the values of parameter name in the query of address loc
QueryValues(loc, name) ==
    LET query == From(loc, FirstOf(loc, {"?"}) + 1)
        parts == SplitOn(query, "&")
    IN  { FormDecode(From(parts[n], RunLenNot(parts[n], {"="}) + 2)) :
            n \in { m \in 1..Len(parts) :
                      FormDecode(SubSeq(parts[m], 1, RunLenNot(parts[m], {"="}))) = name } }

\* the message a route reports for a failed resolution: what the resolver returned, or
\* the route's prefix and the message of what was thrown
Reported(prefix) == IF result.kind = "thrown" THEN prefix \o result.error ELSE result.error

\* the failures of the transport that the hint of a route is for
NetworkClasses(rt) ==
    {"refused", "timedout", "notfound", "timeout"} \cup (IF rt = "api" THEN {"hangup"} ELSE {})

(* C6: GET /api/game-url/:id answers once. It answers 200 exactly when the  *)
(* resolution ended with a proxy path, and the body is then the object      *)
(* whose only member url is that path; it answers 500 for every failure,    *)
(* with the message in member error. Member hint is there only when the     *)
(* failure is one of the transport (connection refused, timed out, host not *)
(* found, timeout, socket hang up), never for a failure the resolver        *)
(* returned (no redirect URL in the page, unexpected status, no proxy path).*)
ApiAnswers ==
    (route = "api" /\ pc = "responded") =>
        /\ res.sends = <<res.statusCode>>
        /\ res.statusCode = (IF result.kind = "ok" THEN 200 ELSE 500)
        /\ result.kind = "ok" =>
              /\ JsonValues(res.body, KEY_URL) = {result.proxyPath}
              /\ JsonValues(res.body, KEY_ERROR) = {}
              /\ JsonValues(res.body, KEY_HINT) = {}
        /\ result.kind # "ok" =>
              /\ JsonValues(res.body, KEY_ERROR) = {Reported(FAILED_API)}
              /\ JsonValues(res.body, KEY_URL) = {}
        /\ JsonValues(res.body, KEY_HINT) # {} =>
              /\ result.kind = "thrown"
              /\ result.cause \in NetworkClasses("api")

\* the second call of the resolver ended with a socket hang up, and the answer has a hint
ApiAnswersWitness ==
    /\ route = "api"
    /\ pc = "responded"
    /\ calls = 2
    /\ result.cause = "hangup"
    /\ res.statusCode = 500
    /\ JsonValues(res.body, KEY_HINT) = {HINT_API}

(* C7 as stated: every answer of /play/jili, /play/pp and /play/joker is a  *)
(* 302, to the resolved proxy path when the resolution succeeded and to the *)
(* error page with the error otherwise.                                     *)
PlayAlwaysRedirects ==
    (route \in {"jili", "pp", "joker"} /\ pc = "responded") =>
        /\ res.statusCode = 302
        /\ "location" \in DOMAIN res.headers
        /\ IF result.kind = "ok" THEN res.headers["location"] = result.proxyPath
           ELSE /\ StartsWith(res.headers["location"], GAME_HTML_QUERY)
                /\ QueryValues(res.headers["location"], KEY_ERROR) = {Reported(FAILED_PLAY)}

(* C7, amended: /play/jili answers a success with a 302 to the resolved     *)
(* proxy path; /play/pp and /play/joker answer a success with a 200 HTML    *)
(* page, not cacheable, whose iframe loads the resolved demo address, and   *)
(* no Location. All three answer every failure with a 302 to /game.html     *)
(* whose query holds id, error (the message) and, for pp and joker, the     *)
(* provider; hint is there only on /play/jili, exactly for a message that   *)
(* names a refused or timed out connection, a host not found or a timeout   *)
(* while no egress proxy is set. Each request is answered once, with 200 or *)
(* 302.                                                                     *)
PlayAnswers ==
    (route \in {"jili", "pp", "joker"} /\ pc = "responded") =>
        LET ok   == result.kind = "ok"
            page == ok /\ route # "jili"
            loc  == res.headers["location"]
        IN  /\ res.sends = <<res.statusCode>>
            /\ res.statusCode = (IF page THEN 200 ELSE 302)
            /\ ("location" \in DOMAIN res.headers) = ~page
            /\ (ok /\ route = "jili") => PercentDecode(loc) = PercentDecode(result.proxyPath)
            /\ page =>
                  /\ Includes(res.body, <<"<", "i", "f", "r", "a", "m", "e", " ", "s", "r", "c", "=", "\"">>
                                        \o result.demoUrl \o <<"\"">>)
                  /\ res.headers["content-type"] = TEXT_HTML_UTF8
                  /\ res.headers["cache-control"] = NO_STORE
            /\ ~ok =>
                  /\ StartsWith(loc, GAME_HTML_QUERY)
                  /\ QueryValues(loc, KEY_ID) = {param}
                  /\ QueryValues(loc, KEY_ERROR) = {Reported(FAILED_PLAY)}
                  /\ QueryValues(loc, KEY_PROVIDER)
                        = (IF route = "jili" THEN {} ELSE {[pp |-> <<"p", "p">>, joker |-> <<"j", "o", "k", "e", "r">>][route]})
                  /\ (QueryValues(loc, KEY_HINT) # {})
                        = (/\ route = "jili"
                           /\ result.kind = "thrown"
                           /\ result.cause \in NetworkClasses("jili")
                           /\ ~OUTBOUND_PROXY_URL)

\* /play/pp found the demo address after one redirect and answered with the page
PlayAnswersWitness ==
    /\ route = "pp"
    /\ pc = "responded"
    /\ calls = 2
    /\ result.kind = "ok"
    /\ result.proxyPath # EMPTY
    /\ res.statusCode = 200
    /\ "location" \notin DOMAIN res.headers

----------------------------------------------------------------------------
(* What the forwarder makes of the upstream's headers                       *)

\* the header names the forwarder must not pass on
GuardNames == {"x-frame-options", "x-content-type-options"}
              \cup {k \in HeaderNames : k \in {"content-security-policy",
                                              "content-security-policy-report-only"}}

(* C11 as stated: a response made from an upstream response has none of    *)
(* the X-Frame-Options, X-Content-Type-Options and Content-Security-Policy* *)
(* headers, and every other upstream header except Location and Set-Cookie  *)
(* is there with the upstream's value.                                      *)
HeadersCopiedVerbatim ==
    proxyReq.state \in {"response", "ended"} =>
        /\ DOMAIN res.headers \cap GuardNames = {}
        /\ \A k \in DOMAIN proxyRes.headers \ (GuardNames \cup {"location", "set-cookie"}) :
              k \in DOMAIN res.headers /\ res.headers[k] = proxyRes.headers[k]

(* C11, amended: a response made from an upstream response has none of the *)
(* X-Frame-Options, X-Content-Type-Options and Content-Security-Policy*     *)
(* headers; Access-Control-Allow-Origin is always "*", whatever the         *)
(* upstream sent; Content-Length is absent once the rewritten body of an    *)
(* HTML response was sent; every other upstream header except Location and  *)
(* Set-Cookie is there with the upstream's value.                           *)
HeadersCopied ==
    proxyReq.state \in {"response", "ended"} =>
        /\ DOMAIN res.headers \cap GuardNames = {}
        /\ res.headers["access-control-allow-origin"] = <<"*">>
        /\ (proxyReq.state = "ended" /\ IsHtml(proxyRes.headers))
              => "content-length" \notin DOMAIN res.headers
        /\ \A k \in DOMAIN proxyRes.headers
                      \ (GuardNames \cup {"location", "set-cookie", "access-control-allow-origin"}) :
              \/ k = "content-length" /\ proxyReq.state = "ended" /\ IsHtml(proxyRes.headers)
              \/ k \in DOMAIN res.headers /\ res.headers[k] = proxyRes.headers[k]

\* an HTML response with all guarded headers was answered to the end
HeadersCopiedWitness ==
    /\ proxyReq.state = "ended"
    /\ GuardNames \subseteq DOMAIN proxyRes.headers
    /\ IsHtml(proxyRes.headers)
    /\ "cache-control" \in DOMAIN res.headers
    /\ res.finished

\* the content type of the head names text/html, in any case
SaysHtml(headers) ==
    /\ "content-type" \in DOMAIN headers
    /\ \E n \in 1..Len(headers["content-type"]) :
          StartsWith(Lower(From(headers["content-type"], n)), <<"t", "e", "x", "t", "/", "h", "t", "m", "l">>)

(* C12: while the transport to the upstream has not failed, the body sent   *)
(* for a response whose content type is not HTML is the upstream's bytes,   *)
(* in order and unmodified: at every moment what was sent followed by what  *)
(* is still to be read is what the upstream sends, nothing is buffered and  *)
(* the upstream's Content-Length stays; at the upstream's end the body is   *)
(* complete and the response ended. Only an HTML response is buffered       *)
(* (nothing is sent before its end) and loses its Content-Length.           *)
PassThrough ==
    (proxyReq.state \in {"response", "ended", "destroyed"} /\ proxyRes.statusCode # 0
     /\ errLog = 0) =>
        IF SaysHtml(proxyRes.headers)
        THEN /\ proxyReq.state # "ended" => (res.body = EMPTY /\ ~res.headersSent)
             /\ Concat(chunks) \o Concat(proxyRes.body) = Concat(proxyRes.bytes)
             /\ proxyReq.state = "ended" => "content-length" \notin DOMAIN res.headers
        ELSE /\ chunks = <<>>
             /\ res.body \o Concat(proxyRes.body) = Concat(proxyRes.bytes)
             /\ proxyReq.state = "ended" => (res.body = Concat(proxyRes.bytes) /\ res.finished)
             /\ "content-length" \in DOMAIN proxyRes.headers =>
                   /\ "content-length" \in DOMAIN res.headers
                   /\ res.headers["content-length"] = proxyRes.headers["content-length"]

\* an image whose bytes hold the address of an allowed host went through in two chunks
PassThroughWitness ==
    /\ proxyReq.state = "ended"
    /\ ~SaysHtml(proxyRes.headers)
    /\ "content-type" \in DOMAIN proxyRes.headers
    /\ proxyRes.bytes = <<CHUNK_HEAD, CHUNK_URL>>
    /\ res.body = CHUNK_HEAD \o CHUNK_URL
    /\ res.finished

----------------------------------------------------------------------------
(* What the resolvers make of the answers they await                       *)

\* the places of body where url=Q, in any case, is followed by one or more characters
\* other than Q and then by Q
QuotedPlaces(body, lead, q) ==
    { n \in 1..Len(body) : QuotedAt(From(body, n), lead, q).ok }

\* the capture of the pattern at its first place
FirstQuoted(body, lead, q) ==
    LET first == CHOOSE n \in QuotedPlaces(body, lead, q) :
                    \A m \in QuotedPlaces(body, lead, q) : n <= m
    IN  QuotedAt(From(body, first), lead, q).group

\* a trial response has settled the first await of resolveGameUrl
TrialAnswered == route \in {"jili", "api"} /\ got.kind = "response" /\ calls = 1

(* C13: once the trial body has arrived, the login URL requested next is    *)
(* the capture of url='...' when the body has one, else the capture of      *)
(* url="...", with each &amp; turned into &; when the body has neither, the *)
(* resolver returns its error and no second request is issued.              *)
LoginUrlParsed ==
    /\ (route \in {"jili", "api"} /\ step = "step3") =>
          /\ calls = 2
          /\ got.kind = "response"
          /\ IF QuotedPlaces(got.body, URL_SQ, "'") # {}
             THEN targetUrl = ReplaceAmp(FirstQuoted(got.body, URL_SQ, "'"))
             ELSE /\ QuotedPlaces(got.body, URL_DQ, "\"") # {}
                  /\ targetUrl = ReplaceAmp(FirstQuoted(got.body, URL_DQ, "\""))
          /\ ~Includes(targetUrl, AMP_ENTITY)
    /\ (TrialAnswered /\ pc = "responded"
        /\ QuotedPlaces(got.body, URL_SQ, "'") = {}
        /\ QuotedPlaces(got.body, URL_DQ, "\"") = {}) =>
          /\ result = Returned(NO_REDIRECT_URL)
          /\ result.proxyPath = EMPTY

\* a body with &amp; in its single-quoted address led to the request of the address with &
LoginUrlParsedWitness ==
    /\ route = "jili"
    /\ step = "step3"
    /\ Includes(got.body, AMP_ENTITY)
    /\ targetUrl = <<"h", "t", "t", "p", "s", ":", "/", "/", "j", "i", "l", "i", "g", "a", "m", "e", "s", ".", "c", "o", "m", "/", "L", "?", "a", "&", "b">>

\* a body without either pattern ended the resolution after the one request
NoLoginUrlWitness ==
    /\ TrialAnswered
    /\ pc = "responded"
    /\ got.body = <<"u", "r", "l", "=", "'", "'">>
    /\ result = Returned(NO_REDIRECT_URL)

\* a login response has settled the second await of resolveGameUrl
LoginAnswered ==
    route \in {"jili", "api"} /\ got.kind = "response" /\ calls = 2 /\ pc = "responded"

(* C14: once the login response has arrived, the resolver ends with what    *)
(* the Location gives when the status is 3xx and a Location is there, with  *)
(* what the login URL just requested gives when the status is 200, and      *)
(* with the unexpected-response error and no proxy path for everything else.*)
FollowLoginEnds ==
    LoginAnswered =>
        IF got.statusCode \in 300..399 /\ HasLocation(got)
        THEN result = JiliResult(toProxyPath(got.headers["location"])).result
        ELSE IF got.statusCode = 200
        THEN result = JiliResult(toProxyPath(targetUrl)).result
        ELSE result = Returned(UNEXPECTED_RESPONSE) /\ result.proxyPath = EMPTY

\* a login answered with 200 and a Location elsewhere gave the path of the login URL
FollowLoginEndsWitness ==
    /\ LoginAnswered
    /\ got.statusCode = 200
    /\ HasLocation(got)
    /\ result.kind = "ok"
    /\ result.proxyPath = toProxyPath(targetUrl).path

\* a login answered with 404, or with 3xx and no Location, gave the error
UnexpectedLoginWitness ==
    /\ LoginAnswered
    /\ got.statusCode = 301
    /\ result = Returned(UNEXPECTED_RESPONSE)

(* C15: a trial response whose status is not 200 never leads to a resolved  *)
(* proxy path: while the resolver waits for the login response after such a *)
(* trial response, no step ends the resolution with a proxy path.           *)
TrialNeeds200 ==
    [][(route \in {"jili", "api"} /\ step = "step3" /\ got.statusCode # 200)
          => result'.kind # "ok"]_vars

\* the login request is under way after a trial response of status 500
TrialNot200Followed ==
    /\ route \in {"jili", "api"}
    /\ step = "step3"
    /\ got.kind = "response"
    /\ got.statusCode = 500

\* the URL text parses as absolute and its host ends with a suffix of provider p
AbsoluteAllowed(p, text) ==
    /\ ParseURL(text).ok
    /\ \E suf \in Suffixes(p) : EndsWith(ParseURL(text).hostname, suf)

\* the final URL resolveGameUrl took from the login response
JiliFinalUrl ==
    IF got.statusCode \in 300..399 /\ HasLocation(got) THEN got.headers["location"]
    ELSE targetUrl

\* resolvePPGameUrl found a demo URL on the page it stopped at
PPDemoFound ==
    /\ route = "pp" /\ pc = "responded" /\ got.kind = "response"
    /\ result.kind \in {"ok", "error"}
    /\ got.statusCode < 400
    /\ QuotedPlaces(got.body, DATA_GAME_SRC, "\"") # {}

(* C16: a resolver returns a proxy path only for a final URL that parses as *)
(* an absolute URL with a host ending in one of the provider's suffixes,    *)
(* and then the path is built from that URL; for a final URL on another     *)
(* host, or one that is no absolute URL, it returns the conversion error    *)
(* and no proxy path.                                                       *)
PathOnlyForAllowedHost ==
    /\ (LoginAnswered /\ (got.statusCode = 200 \/ (got.statusCode \in 300..399 /\ HasLocation(got)))) =>
          IF AbsoluteAllowed("jili", JiliFinalUrl)
          THEN /\ result.kind = "ok"
               /\ StartsWith(result.proxyPath, JILI_PREFIX \o <<"/">> \o ParseURL(JiliFinalUrl).hostname)
          ELSE result = Returned(NO_PROXY_PATH) /\ result.proxyPath = EMPTY
    /\ PPDemoFound =>
          LET demoUrl == ReplaceAmp(FirstQuoted(got.body, DATA_GAME_SRC, "\""))
          IN  IF AbsoluteAllowed("pp", demoUrl)
              THEN /\ result.kind = "ok"
                   /\ result.demoUrl = demoUrl
                   /\ StartsWith(result.proxyPath, PP_PREFIX \o <<"/">> \o ParseURL(demoUrl).hostname)
              ELSE result = Returned(PP_NO_PROXY_PATH) /\ result.proxyPath = EMPTY
    /\ (route \in {"jili", "api", "pp"} /\ result.kind = "ok") =>
          /\ result.proxyPath # EMPTY
          /\ route = "pp" => AbsoluteAllowed("pp", result.demoUrl)
          /\ route # "pp" => AbsoluteAllowed("jili", JiliFinalUrl)

\* a login redirected to an absolute URL on a host outside the suffix: no proxy path
PathOnlyForAllowedHostWitness ==
    /\ LoginAnswered
    /\ got.statusCode = 302
    /\ HasLocation(got)
    /\ ParseURL(got.headers["location"]).ok
    /\ ~AbsoluteAllowed("jili", got.headers["location"])
    /\ result = Returned(NO_PROXY_PATH)

\* a login redirected to a relative Location: no proxy path
RelativeLocationWitness ==
    /\ LoginAnswered
    /\ got.statusCode = 302
    /\ HasLocation(got)
    /\ Head(got.headers["location"]) = "/"
    /\ result = Returned(NO_PROXY_PATH)

\* a page of the other provider with a demo URL on an unrelated host: no proxy path
ForeignDemoWitness ==
    /\ PPDemoFound
    /\ result = Returned(PP_NO_PROXY_PATH)

(* C17: resolveJokerGameUrl issues at most maxRedirects GETs after the POST,*)
(* and the URL it returns is the URL of the last GET it issued, also when   *)
(* every GET was answered with a redirect.                                  *)
JokerReturnsFetched ==
    route = "joker" =>
        /\ calls <= 1 + maxRedirects
        /\ result.kind = "ok" => result.demoUrl = targetUrl

\* the part of C17 that holds: the GETs are bounded, and a GET answered with anything
\* but a redirect ends the loop with its own URL
JokerGetsBounded ==
    route = "joker" =>
        /\ calls <= 1 + maxRedirects
        /\ (result.kind = "ok" /\ ~(got.statusCode \in {301, 302} /\ HasLocation(got)))
              => result.demoUrl = targetUrl
        /\ (result.kind = "ok" /\ got.statusCode \in {301, 302} /\ HasLocation(got))
              => calls = 1 + maxRedirects

\* the fifth GET was answered with a redirect: the URL returned was never requested
JokerBoundReached ==
    /\ route = "joker"
    /\ calls = 1 + maxRedirects
    /\ result.kind = "ok"
    /\ got.statusCode \in {301, 302}
    /\ result.demoUrl # targetUrl

\* the text of the API answer says Success true and has a GameUrl member
SaysSuccess(body) == Includes(body, <<"\"", "S", "u", "c", "c", "e", "s", "s", "\"", ":", "t", "r", "u", "e">>)
HasGameUrl(body) == Includes(body, <<"\"", "G", "a", "m", "e", "U", "r", "l", "\"", ":">>)

\* the POST of resolveJokerGameUrl was answered and no GET followed
JokerEndedAtPost ==
    route = "joker" /\ got.kind = "response" /\ calls = 1 /\ pc = "responded"

(* C18: resolveJokerGameUrl issues its first GET only after an API answer   *)
(* of status 200 whose JSON says Success true and holds a GameUrl; after    *)
(* every other API answer it ends without a demo URL and without a further  *)
(* request, with the status error when the status is not 200.               *)
JokerApiGate ==
    /\ (route = "joker" /\ pc = "awaiting" /\ calls = 2) =>
          /\ step = "jokerGet"
          /\ got.kind = "response"
          /\ got.statusCode = 200
          /\ SaysSuccess(got.body)
          /\ HasGameUrl(got.body)
    /\ JokerEndedAtPost =>
          /\ result.kind \in {"error", "thrown"}
          /\ result.demoUrl = EMPTY
          /\ result.proxyPath = EMPTY
          /\ got.statusCode # 200 => result = Returned(JOKER_STATUS \o Dec(got.statusCode))
          /\ (got.statusCode = 200 /\ (~SaysSuccess(got.body) \/ ~HasGameUrl(got.body)))
                => result.error \in {JOKER_INVALID_JSON, JOKER_NO_GAME_URL, NULL_SUCCESS}
                                    \cup {JsonParse(got.body).Message}

\* an API answer of status 500 with a good JSON body ended the resolution at once
JokerApiGateWitness ==
    /\ JokerEndedAtPost
    /\ got.statusCode = 500
    /\ SaysSuccess(got.body)
    /\ HasGameUrl(got.body)
    /\ result.kind = "error"

\* a good API answer led to the first GET
JokerProceedsWitness ==
    /\ route = "joker" /\ pc = "awaiting" /\ calls = 2
    /\ SaysSuccess(got.body)

\* the messages of the resolvers for a page or an answer of the wrong shape, and for a
\* status they do not accept
ShapeErrors ==
    {NO_REDIRECT_URL, PP_NO_DEMO_URL, JOKER_INVALID_JSON, JOKER_NO_GAME_URL}
StatusErrors ==
    {UNEXPECTED_RESPONSE} \cup { PP_STATUS \o Dec(n) : n \in {404, 500} }
                          \cup { JOKER_STATUS \o Dec(n) : n \in {404, 500} }

\* the error message the answer carries: member error of the JSON body of the API route,
\* parameter error of the address the play routes redirect to
ErrorsAnswered ==
    IF route = "api" THEN JsonValues(res.body, KEY_ERROR)
    ELSE IF "location" \in DOMAIN res.headers
         THEN QueryValues(res.headers["location"], KEY_ERROR)
    ELSE {}

(* C19: when the timeout of an outbound call of a resolver (trial GET,      *)
(* login GET, page GET, JSON POST, redirect-follow GET) fires, the resolver *)
(* ends by the Timeout error without a proxy path or demo URL and makes no  *)
(* further call; the route answers 500 (API) or 302 to the error page       *)
(* (play routes) with the message "Failed to resolve...: Timeout", and no   *)
(* answer for a wrong page shape or an unexpected status carries a message  *)
(* that names a timeout.                                                    *)
TimeoutReported ==
    /\ got = RequestTimeout =>
          /\ pc = "responded"
          /\ result = Thrown(RequestTimeout.message, "timeout")
          /\ result.proxyPath = EMPTY /\ result.demoUrl = EMPTY
          /\ res.statusCode = (IF route = "api" THEN 500 ELSE 302)
          /\ ErrorsAnswered
                = {(IF route = "api" THEN FAILED_API ELSE FAILED_PLAY) \o RequestTimeout.message}
          /\ route = "api" => JsonValues(res.body, KEY_URL) = {}
          /\ route # "api" => StartsWith(res.headers["location"], GAME_HTML_QUERY)
    /\ (pc = "responded" /\ result.kind = "error" /\ result.error \in ShapeErrors \cup StatusErrors) =>
          /\ got # RequestTimeout
          /\ ErrorsAnswered = {result.error}
          /\ ~TestAny({RequestTimeout.message}, result.error)

\* the timeout of a redirect-follow GET of the JSON variant fired
TimeoutReportedWitness ==
    /\ route = "joker"
    /\ calls = 3
    /\ got = RequestTimeout
    /\ pc = "responded"
    /\ res.statusCode = 302

\* the timeout of the trial GET fired on the API route
TrialTimeoutWitness ==
    /\ route = "api"
    /\ calls = 1
    /\ got = RequestTimeout
    /\ res.statusCode = 500

----------------------------------------------------------------------------
(* What the rewrite leaves of the absolute URLs of an HTML body             *)

\* at place n of s stands http:// or https:// and a host that ends with a suffix of
\* provider p
AllowedUrlAt(p, s, n) ==
    \E scheme \in {HTTP_SCHEME, HTTPS_SCHEME} :
        /\ StartsWith(From(s, n), scheme)
        /\ \E suf \in Suffixes(p) :
              EndsWith(SubSeq(s, n + Len(scheme),
                              n + Len(scheme) - 1 + RunLen(From(s, n + Len(scheme)), HostClass)),
                       suf)

\* the forwarder has sent the rewritten HTML body of an upstream response
HtmlSent ==
    /\ proxyReq.state = "ended"
    /\ proxyRes.html
    /\ pc # "uncaught"
    /\ res.finished
    /\ res.statusCode = proxyRes.statusCode

(* C20: the HTML body the forwarder sends holds no absolute http:// or      *)
(* https:// URL whose host ends with an allowed suffix of its provider,     *)
(* whatever followed the host in the upstream's body.                       *)
NoAllowedUrlLeft ==
    HtmlSent =>
        \A n \in 1..Len(res.body) : ~AllowedUrlAt(ProviderOf(req.url), res.body, n)

\* the part of C20 that holds: no such URL that has a path is left, and the URLs
\* without a path are all that is left
UrlsWithPathRewritten ==
    HtmlSent =>
        \A n \in 1..Len(res.body) :
            AllowedUrlAt(ProviderOf(req.url), res.body, n) =>
                LET after == From(res.body, n + RunLen(From(res.body, n), SchemeChars) + 3)
                IN  From(after, RunLen(after, HostClass) + 1) = EMPTY
                    \/ Head(From(after, RunLen(after, HostClass) + 1)) # "/"

\* an upstream body with an URL with a path and one without: only the first was rewritten
BareUrlLeft ==
    /\ HtmlSent
    /\ proxyRes.bytes = <<CHUNK_URL, CHUNK_BARE>>
    /\ Includes(res.body, JILI_PREFIX \o <<"/">> \o JILI_COM \o <<"/", "x", "\"">>)
    /\ Includes(res.body, CHUNK_BARE)

----------------------------------------------------------------------------
(* The HTML rewrite on its own: a body is rewritten, and what the rewrite   *)
(* returned is rewritten once more.                                         *)

MaxPieces == 2          \* pieces of a body handed to the rewrite

PIECE_NESTED == <<"h", "t", "t", "p", "s", ":", "/", "/", "j", "i", "l", "i", "g", "a", "m", "e", "s", ".", "c", "o", "m", "/", "l", "?", "r", "=", "h", "t", "t", "p", "s", ":", "/", "/", "j", "i", "l", "i", "g", "a", "m", "e", "s", ".", "c", "o", "m", "/", "g", "\"">>
PIECE_PP == <<"h", "t", "t", "p", ":", "/", "/", "a", ".", "p", "r", "a", "g", "m", "a", "t", "i", "c", "p", "l", "a", "y", ".", "n", "e", "t", "/", "y", " ">>
PIECE_PROXIED == <<"/", "j", "i", "l", "i", "/", "j", "i", "l", "i", "g", "a", "m", "e", "s", ".", "c", "o", "m", "/", "z", "\"">>
PIECE_OTHER == <<"h", "t", "t", "p", "s", ":", "/", "/", "x", ".", "c", "o", "m", "/", "j", "i", "l", "i", "g", "a", "m", "e", "s", ".", "c", "o", "m", "/", " ">>

Pieces == {CHUNK_HEAD, CHUNK_URL, CHUNK_BARE, PIECE_NESTED, PIECE_PP, PIECE_PROXIED,
           PIECE_OTHER}

RewriteBodies == { Concat(ps) : ps \in SeqsUpTo(Pieces, MaxPieces) }

InitRewrite ==
    /\ pc = "rewrite"
    /\ provider \in Providers
    /\ fullUrl = EMPTY
    /\ proxied = NoPath
    /\ decoded = NoMatch
    /\ OUTBOUND_PROXY_URL = FALSE
    /\ FwdIdle
    /\ PlayIdle
    /\ rwBody \in RewriteBodies
    /\ rwHost \in {EMPTY, JILI_COM}
    /\ rwOut = <<>>
    /\ ImgIdle
    /\ NavIdle
    /\ GetIdle

\* rewriteHtml(body, targetHost) or rewritePPHtml(body, targetHost)
RewriteBody ==
    /\ pc = "rewrite"
    /\ rwOut = <<>>
    /\ rwOut' = <<RewriteProviderHtml(provider, rwBody, rwHost, <<"/">>)>>
    /\ UNCHANGED <<pc, codecVars, OUTBOUND_PROXY_URL, fwdVars, playVars, rwBody, rwHost,
                   imgVars, navVars, getVars>>

\* the same rewrite applied to what it returned
RewriteAgain ==
    /\ pc = "rewrite"
    /\ Len(rwOut) = 1
    /\ rwOut' = Append(rwOut, RewriteProviderHtml(provider, rwOut[1], rwHost, <<"/">>))
    /\ UNCHANGED <<pc, codecVars, OUTBOUND_PROXY_URL, fwdVars, playVars, rwBody, rwHost,
                   imgVars, navVars, getVars>>

NextRewrite == RewriteBody \/ RewriteAgain

SpecRewrite == InitRewrite /\ [][NextRewrite]_vars

\* the proxied paths of text s: prefix, '/', a host of provider p, and a path up to the
\* next quote, angle bracket or blank
ProxiedPaths(p, s) ==
    LET lead == Prefix(p) \o <<"/">>
        HostLen(n) == RunLen(From(s, n + Len(lead)), HostClass)
        After(n) == From(s, n + Len(lead) + HostLen(n))
    IN  { SubSeq(s, n, n + Len(lead) + HostLen(n) + RunLenNot(After(n), UrlStop) - 1) :
            n \in { m \in 1..Len(s) :
                      /\ StartsWith(From(s, m), lead)
                      /\ \E suf \in Suffixes(p) :
                            EndsWith(SubSeq(s, m + Len(lead), m + Len(lead) + HostLen(m) - 1), suf)
                      /\ StartsWith(After(m), <<"/">>) } }

NestedUrlRewritten ==
    /\ Len(rwOut) = 2
    /\ rwBody = PIECE_NESTED
    /\ rwHost = EMPTY
    /\ rwOut[2] # rwOut[1]

----------------------------------------------------------------------------
(* The image proxy: app.get('/api/proxy-image') with its cache on disk,     *)
(* for requests of several clients whose steps interleave.                  *)

ImgChunks == 3          \* chunks of an image an upstream sends
ChunkBytes == 300       \* bytes of a chunk

\* fs.statSync(cachePath).size > 500
MinCachedSize == 500

\* const ALLOWED_IMAGE_HOSTS
ALLOWED_IMAGE_HOSTS == { <<"w", "w", "w", ".", "p", "r", "a", "g", "m", "a", "t", "i", "c", "p", "l", "a", "y", ".", "c", "o", "m">>, <<"p", "r", "a", "g", "m", "a", "t", "i", "c", "p", "l", "a", "y", ".", "c", "o", "m">>, <<"d", "l", ".", "z", "h", "e", "n", "w", "u", "d", "a", "d", "i", ".", "n", "e", "t">> }

IMG_KEY == <<"i", "m", "g">>

IMG_A == <<"h", "t", "t", "p", "s", ":", "/", "/", "w", "w", "w", ".", "p", "r", "a", "g", "m", "a", "t", "i", "c", "p", "l", "a", "y", ".", "c", "o", "m", "/", "a", "/", "t", ".", "p", "n", "g">>
IMG_B == <<"h", "t", "t", "p", "s", ":", "/", "/", "d", "l", ".", "z", "h", "e", "n", "w", "u", "d", "a", "d", "i", ".", "n", "e", "t", "/", "b", "/", "t", ".", "p", "n", "g">>
IMG_C == <<"h", "t", "t", "p", "s", ":", "/", "/", "p", "r", "a", "g", "m", "a", "t", "i", "c", "p", "l", "a", "y", ".", "c", "o", "m", "/">>
IMG_FOREIGN == <<"h", "t", "t", "p", "s", ":", "/", "/", "j", "i", "l", "i", "g", "a", "m", "e", "s", ".", "c", "o", "m", "/", "t", ".", "p", "n", "g">>
IMG_NO_URL == <<"t", ".", "p", "n", "g">>

ImageUrls == {IMG_A, IMG_B, IMG_C, IMG_FOREIGN, IMG_NO_URL}

Clients == {1, 2}

\* the bytes the upstream has for url: chunk k of that URL's image
Image(url) == [k \in 1..ImgChunks |-> [url |-> url, part |-> k]]

\* the bytes of a file between what two writers wrote at their own positions
HOLE == [url |-> EMPTY, part |-> 0]

\* parsed.pathname.split('/').pop() || 'img'
CacheKey(pathname) ==
    IF From(pathname, LastIndexOf(pathname, "/") + 1) = EMPTY THEN IMG_KEY
    ELSE From(pathname, LastIndexOf(pathname, "/") + 1)

\* OUTBOUND_PROXY_URL ? new HttpsProxyAgent(OUTBOUND_PROXY_URL) : new https.Agent(...)
ImageAgent == IF OUTBOUND_PROXY_URL THEN "HttpsProxyAgent" ELSE "insecureAgent"

\* fs.existsSync(cachePath) && fs.statSync(cachePath).size > 500
Cached(key) == key \in DOMAIN disk /\ Len(disk[key]) * ChunkBytes > MinCachedSize

\* a write stream puts chunk at its own position, the number of chunks it wrote before
WriteAt(file, offset, chunk) ==
    [n \in 1..(IF Len(file) > offset + 1 THEN Len(file) ELSE offset + 1) |->
        IF n = offset + 1 THEN chunk ELSE IF n <= Len(file) THEN file[n] ELSE HOLE]

NewImg(url) ==
    [url |-> url, state |-> "new", host |-> EMPTY, key |-> EMPTY, agent |-> "none",
     status |-> 0, location |-> EMPTY, served |-> <<>>, fromCache |-> FALSE,
     written |-> 0, left |-> <<>>]

InitImg ==
    /\ pc = "img"
    /\ CodecIdle
    /\ FwdIdle
    /\ PlayIdle
    /\ RewriteIdle
    /\ NavIdle
    /\ GetIdle
    /\ OUTBOUND_PROXY_URL \in BOOLEAN
    /\ disk = EmptyFn
    /\ img \in { [c \in Clients |-> NewImg(u[c])] : u \in [Clients -> ImageUrls] }

\* the answer of client c that ends its request
ImgAnswer(c, code) == [img[c] EXCEPT !.state = "done", !.status = code]

\* the handler up to the cache test of a parsed URL u: served from the cache, or fetched
ImgLookup(c, u) ==
    IF ~u.ok THEN img' = [img EXCEPT ![c] = ImgAnswer(c, 400)]
    ELSE IF u.hostname \notin ALLOWED_IMAGE_HOSTS
    THEN img' = [img EXCEPT ![c] = ImgAnswer(c, 403)]
    ELSE IF Cached(CacheKey(u.pathname))
    THEN img' = [img EXCEPT ![c] = [ImgAnswer(c, 200) EXCEPT
                                       !.host = u.hostname, !.key = CacheKey(u.pathname),
                                       !.served = disk[CacheKey(u.pathname)],
                                       !.fromCache = TRUE]]
    ELSE img' = [img EXCEPT ![c] = [@ EXCEPT !.state = "fetching", !.host = u.hostname,
                                              !.key = CacheKey(u.pathname),
                                              !.agent = ImageAgent]]

\* app.get('/api/proxy-image') from its start to the answer from the cache or to
\* proxyReq.end()
ProxyImage(c) ==
    /\ pc = "img"
    /\ img[c].state = "new"
    /\ ImgLookup(c, ParseURL(img[c].url))
    /\ UNCHANGED <<pc, codecVars, OUTBOUND_PROXY_URL, fwdVars, playVars, rewriteVars, navVars, getVars, disk>>

\* the callback of https.request: a redirect, an upstream error, or the pipes to the
\* response and to fs.createWriteStream(cachePath), which empties the file
ImgResponse(c) ==
    /\ pc = "img"
    /\ img[c].state = "fetching"
    /\ \E code \in {200, 302, 404} :
          IF code = 302
          THEN /\ img' = [img EXCEPT ![c] = [ImgAnswer(c, 302) EXCEPT
                             !.location = <<"/", "a", "p", "i", "/", "p", "r", "o", "x", "y", "-", "i", "m", "a", "g", "e", "?", "u", "r", "l", "=">>
                                          \o EncodeURIComponent(IMG_C)]]
               /\ UNCHANGED disk
          ELSE IF code >= 400
          THEN img' = [img EXCEPT ![c] = ImgAnswer(c, code)] /\ UNCHANGED disk
          ELSE /\ img' = [img EXCEPT ![c] = [@ EXCEPT !.state = "piping", !.status = 200,
                                                     !.left = Image(img[c].url)]]
               /\ disk' = [k \in DOMAIN disk \cup {img[c].key} |->
                             IF k = img[c].key THEN <<>> ELSE disk[k]]
    /\ UNCHANGED <<pc, codecVars, OUTBOUND_PROXY_URL, fwdVars, playVars, rewriteVars, navVars, getVars>>

\* a chunk of the upstream goes to the response and to the file
ImgData(c) ==
    /\ pc = "img"
    /\ img[c].state = "piping"
    /\ img[c].left # <<>>
    /\ img' = [img EXCEPT ![c] = [@ EXCEPT !.served = Append(@, Head(img[c].left)),
                                          !.written = @ + 1, !.left = Tail(@)]]
    /\ disk' = [disk EXCEPT ![img[c].key] = WriteAt(@, img[c].written, Head(img[c].left))]
    /\ UNCHANGED <<pc, codecVars, OUTBOUND_PROXY_URL, fwdVars, playVars, rewriteVars, navVars, getVars>>

\* the upstream ends: the pipes end the response and the file
ImgEnd(c) ==
    /\ pc = "img"
    /\ img[c].state = "piping"
    /\ img[c].left = <<>>
    /\ img' = [img EXCEPT ![c].state = "done"]
    /\ UNCHANGED <<pc, codecVars, OUTBOUND_PROXY_URL, fwdVars, playVars, rewriteVars, navVars, getVars, disk>>

\* proxyReq.on('error'): 502 while nothing was sent; a body under way stays cut short
ImgError(c) ==
    /\ pc = "img"
    /\ img[c].state \in {"fetching", "piping"}
    /\ img' = [img EXCEPT ![c] = IF img[c].state = "fetching" THEN ImgAnswer(c, 502)
                                 ELSE [@ EXCEPT !.state = "failed"]]
    /\ UNCHANGED <<pc, codecVars, OUTBOUND_PROXY_URL, fwdVars, playVars, rewriteVars, navVars, getVars, disk>>

\* proxyReq.setTimeout(10000, ...): proxyReq.destroy(), and 504 while nothing was sent
ImgTimeout(c) ==
    /\ pc = "img"
    /\ img[c].state \in {"fetching", "piping"}
    /\ img' = [img EXCEPT ![c] = IF img[c].state = "fetching" THEN ImgAnswer(c, 504)
                                 ELSE [@ EXCEPT !.state = "failed"]]
    /\ UNCHANGED <<pc, codecVars, OUTBOUND_PROXY_URL, fwdVars, playVars, rewriteVars, navVars, getVars, disk>>

NextImg ==
    \/ \E c \in Clients : ProxyImage(c)
    \/ \E c \in Clients : ImgResponse(c)
    \/ \E c \in Clients : ImgData(c)
    \/ \E c \in Clients : ImgEnd(c)
    \/ \E c \in Clients : ImgError(c)
    \/ \E c \in Clients : ImgTimeout(c)

SpecImg == InitImg /\ [][NextImg]_vars

----------------------------------------------------------------------------
(* Every part that makes outbound requests: the forwarders, the resolvers   *)
(* and the image proxy.                                                     *)

InitOutbound == InitFwd \/ InitPlay \/ InitImg

NextOutbound == NextFwd \/ NextPlay \/ NextImg

SpecOutbound == InitOutbound /\ [][NextOutbound]_vars

\* the agents that send a request through OUTBOUND_PROXY_URL
EgressAgents == {"_jiliProxyAgent", "HttpsProxyAgent"}

\* the host ends with a suffix of the provider's set
Managed(p, hostname) == \E suf \in Suffixes(p) : EndsWith(hostname, suf)

(* C22 as stated: an outbound request goes through the egress proxy only    *)
(* when its host matches a provider's suffix set: a request of a forwarder, *)
(* a call of a resolver and a fetch of the image proxy alike.               *)
EgressOnlyManaged ==
    /\ (proxyReq.state # "none" /\ proxyReq.options.agent \in EgressAgents)
          => \E p \in Providers : Managed(p, proxyReq.options.hostname)
    /\ callAgent \in EgressAgents
          => \E p \in Providers : Managed(p, ParseURL(targetUrl).hostname)
    /\ \A c \in DOMAIN img :
          img[c].agent \in EgressAgents => \E p \in Providers : Managed(p, img[c].host)

(* C22, amended: the /jili forwarder and the calls of resolveGameUrl go     *)
(* through the egress proxy exactly when it is configured and the host ends *)
(* with jiligames.com; the /pp-proxy forwarder and the calls of the other   *)
(* two resolvers never do; the image proxy sends every fetch through it     *)
(* when it is configured, whatever the image host.                          *)
EgressUse ==
    /\ proxyReq.state # "none" =>
          (proxyReq.options.agent \in EgressAgents)
             = (/\ OUTBOUND_PROXY_URL
                /\ ProviderOf(req.url) = "jili"
                /\ EndsWith(proxyReq.options.hostname, JILI_COM))
    /\ calls > 0 =>
          (callAgent \in EgressAgents)
             = (/\ OUTBOUND_PROXY_URL
                /\ route \in {"api", "jili"}
                /\ EndsWith(ParseURL(targetUrl).hostname, JILI_COM))
    /\ \A c \in DOMAIN img :
          img[c].agent # "none" =>
             /\ img[c].host \in ALLOWED_IMAGE_HOSTS
             /\ (img[c].agent \in EgressAgents) = OUTBOUND_PROXY_URL

\* an image of a host outside every provider's suffixes is fetched through the egress proxy
EgressUseWitness ==
    /\ pc = "img"
    /\ \E c \in DOMAIN img :
          /\ img[c].state = "piping"
          /\ img[c].agent = "HttpsProxyAgent"
          /\ \A p \in Providers : ~Managed(p, img[c].host)

\* the login URL of a resolution is on another host and is requested without the proxy
DirectLoginWitness ==
    /\ OUTBOUND_PROXY_URL
    /\ route = "jili"
    /\ calls = 2
    /\ pc = "awaiting"
    /\ callAgent = "undefined"

----------------------------------------------------------------------------
(* C23: no automatic retry. In every step of the forwarders and of the      *)
(* resolvers: a forwarder has made at most one upstream request for its     *)
(* inbound request, a JILI resolution has made at most two GETs, and the    *)
(* step in which an awaited call fails (transport error or timeout) issues  *)
(* no further call and ends the handling of the request.                    *)
NoRetry ==
    [][/\ upstreamCreated' <= 1
       /\ route' \in {"api", "jili"} => calls' <= 2
       /\ (pc = "awaiting" /\ got'.kind = "error") =>
             (calls' = calls /\ pc' = "responded")]_vars

\* the login GET of a JILI resolution timed out after the trial GET, and the request was answered
NoRetryWitness ==
    /\ route = "jili"
    /\ calls = 2
    /\ got = RequestTimeout
    /\ pc = "responded"
    /\ result.kind = "thrown"

\* a forwarder answered 502 for its one upstream request that failed
NoRetryFwdWitness ==
    /\ upstreamCreated = 1
    /\ proxyReq.state # "none"
    /\ res.statusCode = 502

----------------------------------------------------------------------------
(* The headers of the outbound request, for inbound requests with every     *)
(* choice of headers.                                                       *)

\* the four headers the handlers read, and three they do not
ReadHeaders == {"user-agent", "accept", "accept-language", "cookie"}

OtherHeaders == {"referer", "accept-encoding", "authorization"}

\* the values a client sends for header k: the empty value counts as no header
\* for the handlers
HeaderValues(k) ==
    CASE k = "user-agent" -> { <<"U", "A">>, <<"U", "B">> }
      [] k = "cookie" -> { <<"c", "=", "1">>, EMPTY }
      [] k = "referer" -> { <<"h", "t", "t", "p", ":", "/", "/", "e", "v", "i", "l", "/">> }
      [] k = "accept-encoding" -> { <<"g", "z", "i", "p">> }
      [] OTHER -> { <<"a">> }

ReqHeaderSets ==
    UNION { { h \in [S -> UNION { HeaderValues(k) : k \in S }] :
                \A k \in S : h[k] \in HeaderValues(k) } :
            S \in SUBSET (ReadHeaders \cup OtherHeaders) }

InitReqHdr ==
    /\ pc = "fwd"
    /\ CodecIdle
    /\ PlayIdle
    /\ ExtraIdle
    /\ OUTBOUND_PROXY_URL = FALSE
    /\ req \in [method : FwdMethods, url : HdrUrls, headers : ReqHeaderSets]
    /\ reqStream = "open"
    /\ proxyReq = NoProxyReq
    /\ proxyRes = NoProxyRes
    /\ res = FreshRes
    /\ chunks = <<>>
    /\ upstreamCreated = 0
    /\ errLog = 0

NextReqHdr == JiliForward \/ PPForward

SpecReqHdr == InitReqHdr /\ [][NextReqHdr]_vars

\* two sets of inbound headers agree on header k
SameHeader(h1, h2, k) ==
    (k \in DOMAIN h1) = (k \in DOMAIN h2) /\ (k \in DOMAIN h1 => h1[k] = h2[k])

(* C24: the headers of the outbound request are those that any inbound      *)
(* request to the same target with the same User-Agent, Accept,             *)
(* Accept-Language and Cookie gets, whatever its other headers; they are    *)
(* the seven names of the list at most, Accept-Encoding is identity, and    *)
(* Referer and Origin are the origin of the target host.                    *)
HeaderAllowList ==
    proxyReq.state # "none" =>
        /\ \A h2 \in ReqHeaderSets :
              (\A k \in ReadHeaders : SameHeader(req.headers, h2, k))
                 => OutboundHeaders(proxyReq.options.hostname, h2) = proxyReq.options.headers
        /\ DOMAIN proxyReq.options.headers \subseteq
              {"user-agent", "accept", "accept-language", "accept-encoding", "referer",
               "origin", "cookie"}
        /\ proxyReq.options.headers["accept-encoding"] = IDENTITY
        /\ proxyReq.options.headers["referer"]
              = HTTPS_ORIGIN \o proxyReq.options.hostname \o <<"/">>
        /\ proxyReq.options.headers["origin"] = HTTPS_ORIGIN \o proxyReq.options.hostname

\* a request with a Referer, an Accept-Encoding and an Authorization of its own was forwarded
HeaderAllowListWitness ==
    /\ proxyReq.state = "inflight"
    /\ OtherHeaders \subseteq DOMAIN req.headers
    /\ "cookie" \in DOMAIN proxyReq.options.headers
    /\ proxyReq.options.headers["user-agent"] = <<"U", "B">>

----------------------------------------------------------------------------
(* Navigation: a client opens a play URL and follows every redirect, while  *)
(* every outbound call of the resolver fails.                               *)

MaxHops == 6

\* req.query[key]: the value of the first key=value of the query, EMPTY when there is none
QueryParam(url, key) ==
    LET q == From(url, FirstOf(url, {"?"}) + 1)
        pairs == SplitOn(q, "&")
        hits == { n \in 1..Len(pairs) :
                    FormDecode(SubSeq(pairs[n], 1, FirstOf(pairs[n], {"="}) - 1)) = key }
    IN  IF hits = {} THEN EMPTY
        ELSE FormDecode(From(pairs[CHOOSE n \in hits : \A m \in hits : n <= m],
                             FirstOf(pairs[CHOOSE n \in hits : \A m \in hits : n <= m], {"="}) + 1))

NavUrls == { PLAY_JILI \o p : p \in PlayParams } \cup { PLAY \o p : p \in PlayParams }

InitNav ==
    /\ pc = "route"
    /\ CodecIdle
    /\ PlayIdle
    /\ ExtraIdle
    /\ OUTBOUND_PROXY_URL \in BOOLEAN
    /\ req \in [method : {"GET"}, url : NavUrls, headers : {EmptyFn}]
    /\ reqStream = "open"
    /\ proxyReq = NoProxyReq
    /\ proxyRes = NoProxyRes
    /\ res = FreshRes
    /\ chunks = <<>>
    /\ upstreamCreated = 0
    /\ errLog = 0

\* app.get('/game.html')
GameHtml ==
    /\ pc = "route"
    /\ ReqPath(req.url) = GAME_HTML
    /\ pc' = "responded"
    /\ route' = "game"
    /\ param' = QueryParam(req.url, KEY_ID)
    /\ res' = IF QueryParam(req.url, KEY_ID) = EMPTY THEN Redirect(res, 302, <<"/">>)
              ELSE Redirect(res, 302, PLAY \o QueryParam(req.url, KEY_ID))
    /\ UNCHANGED <<codecVars, extraVars, OUTBOUND_PROXY_URL, req, reqStream, proxyReq, proxyRes,
                   chunks, upstreamCreated, errLog, step, targetUrl, loopI, calls,
                   callAgent, got, result>>

\* await httpsGet(`https://jiligames.com/PlusTrial/...`) rejects
Step1Fails == \E out \in Failures(targetUrl) : Settle("step1", out, AfterStep1(out), "step3", 0)

\* the client requests the Location of the redirect it received
FollowRedirect ==
    /\ pc = "responded"
    /\ res.statusCode \in 300..399
    /\ "location" \in DOMAIN res.headers
    /\ Len(trail) < MaxHops
    /\ trail' = Append(trail, <<route, req.url>>)
    /\ req' = [req EXCEPT !.url = res.headers["location"]]
    /\ res' = FreshRes
    /\ pc' = "route"
    /\ route' = "none"
    /\ param' = EMPTY
    /\ step' = "idle"
    /\ targetUrl' = EMPTY
    /\ loopI' = 0
    /\ calls' = 0
    /\ callAgent' = "none"
    /\ got' = NoOutcome
    /\ result' = NoResult
    /\ UNCHANGED <<codecVars, rewriteVars, imgVars, getVars, OUTBOUND_PROXY_URL, reqStream,
                   proxyReq, proxyRes, chunks, upstreamCreated, errLog>>

NextNav ==
    \/ PlayJili
    \/ PlayLegacy
    \/ GameHtml
    \/ Step1Fails
    \/ FollowRedirect

SpecNav == InitNav /\ [][NextNav]_vars

\* the requests of the navigation that started a resolution, the current one included
Resolutions ==
    Cardinality({ n \in 1..Len(trail) : trail[n][1] = "jili" })
    + (IF route = "jili" THEN 1 ELSE 0)

(* C25: while the upstream keeps failing, a client that follows the         *)
(* redirects from a play request never requests the same URL twice, so      *)
(* /game.html, /play/:id and /play/jili/:id form no cycle, and no hop after *)
(* the failed play request starts another resolution.                       *)
NavigationTerminates ==
    /\ Resolutions <= 1
    /\ \A n \in 1..Len(trail) : trail[n][2] # req.url
    /\ \A m, n \in 1..Len(trail) : m # n => trail[m][2] # trail[n][2]

\* the client is sent from the error redirect back to the play route, which resolves again
SecondResolution ==
    /\ Len(trail) >= 3
    /\ trail[Len(trail)][1] = "legacy"
    /\ trail[Len(trail) - 1][1] = "game"
    /\ trail[Len(trail) - 2][1] = "jili"
    /\ route = "jili"
    /\ pc = "awaiting"

----------------------------------------------------------------------------
(* C26: in every step of a forwarder, whatever the order of the upstream's  *)
(* and the client's events: the response has been completed at most once; a *)
(* completed response is not touched again; and once its head has gone out  *)
(* its status and headers stay, so no 502 follows the start of the          *)
(* delivery.                                                                *)
CompletedOnce ==
    [][/\ Len(res'.sends) <= 1
       /\ res.finished => res' = res
       /\ (res.headersSent /\ ~res.finished)
             => /\ res'.statusCode = res.statusCode
                /\ res'.headers = res.headers
                /\ res'.sends \in {res.sends, <<res.statusCode>>}
       /\ pc' # "uncaught"]_vars

\* the upstream failed after part of its response was delivered: no 502, only the log
ErrorAfterDelivery ==
    /\ proxyReq.state = "destroyed"
    /\ proxyRes.statusCode = 200
    /\ res.headersSent
    /\ ~res.finished
    /\ res.body # EMPTY
    /\ errLog = 1
    /\ res.sends = <<>>

\* the client went away, the destroyed request reported its error and the 502 was the
\* only completion
ErrorPathCompleted ==
    /\ reqStream = "closed"
    /\ proxyReq.state = "destroyed"
    /\ ~proxyReq.errorPending
    /\ res.sends = <<502>>

----------------------------------------------------------------------------
(* The redirects of the catch-all and of the /proxy alias, followed by the  *)
(* client to the forwarder that answers them.                               *)

PROXY_PREFIX == <<"/", "p", "r", "o", "x", "y">>

\* request targets under the mount path of the alias
AliasUrls ==
    { PROXY_PREFIX \o r :
        r \in { EMPTY, <<"/">>, <<"/", "x">>, <<"?", "x">>, <<"/", "x", "?", "x">>,
                <<"/", "\"">>, <<"/", "/", "x">>, <<"/", "j", "i", "l", "i", "/", "x">> } }

InitRedir ==
    /\ \/ pc = "catchall" /\ req \in [method : FwdMethods, url : CatchUrls, headers : CatchHeaderSets]
       \/ pc = "alias" /\ req \in [method : FwdMethods, url : AliasUrls, headers : CatchHeaderSets]
    /\ CodecIdle
    /\ PlayIdle
    /\ ExtraIdle
    /\ OUTBOUND_PROXY_URL = FALSE
    /\ reqStream = "open"
    /\ proxyReq = NoProxyReq
    /\ proxyRes = NoProxyRes
    /\ res = FreshRes
    /\ chunks = <<>>
    /\ upstreamCreated = 0
    /\ errLog = 0

\* req.url inside app.use('/proxy', ...)
AliasUrl(url) ==
    IF From(url, Len(PROXY_PREFIX) + 1) = EMPTY \/ url[Len(PROXY_PREFIX) + 1] # "/"
    THEN <<"/">> \o From(url, Len(PROXY_PREFIX) + 1)
    ELSE From(url, Len(PROXY_PREFIX) + 1)

\* app.use('/proxy', (req, res) => res.redirect(307, '/jili/jiligames.com' + req.url))
ProxyAlias ==
    /\ pc = "alias"
    /\ pc' = "redirected"
    /\ res' = Redirect(res, 307, JILI_PREFIX \o <<"/">> \o JILI_COM \o AliasUrl(req.url))
    /\ UNCHANGED <<codecVars, playVars, extraVars, OUTBOUND_PROXY_URL, req, reqStream, proxyReq,
                   proxyRes, chunks, upstreamCreated, errLog>>

\* the client repeats its request at the Location of the 307: a forwarder takes a path
\* under its mount path, the catch-all anything else
FollowToProxy ==
    /\ pc = "redirected"
    /\ Len(trail) < MaxHops
    /\ trail' = Append(trail, <<"redirect", req.url>>)
    /\ req' = [req EXCEPT !.url = res.headers["location"]]
    /\ res' = FreshRes
    /\ pc' = IF ProviderOf(res.headers["location"]) # "none" THEN "fwd" ELSE "catchall"
    /\ UNCHANGED <<codecVars, playVars, rewriteVars, imgVars, getVars, OUTBOUND_PROXY_URL,
                   reqStream, proxyReq, proxyRes, chunks, upstreamCreated, errLog>>

NextRedir ==
    \/ CatchAll
    \/ ProxyAlias
    \/ FollowToProxy
    \/ JiliForward
    \/ PPForward

SpecRedir == InitRedir /\ [][NextRedir]_vars

(* C27: the Location of every redirect of the catch-all and of the /proxy   *)
(* alias is under a forwarder's mount path and is a path the catch-all      *)
(* passes on; the forwarder that receives it does not answer 400 but makes  *)
(* its upstream request; so no request is redirected twice.                 *)
RedirectsReachForwarder ==
    /\ Len(trail) <= 1
    /\ pc = "redirected" =>
          /\ ProviderOf(res.headers["location"]) # "none"
          /\ IsOwnPath(ReqPath(res.headers["location"]))
          /\ res.statusCode = 307
    /\ trail # <<>> => pc \in {"fwd", "handled"}
    /\ (trail # <<>> /\ pc = "handled") =>
          /\ res.statusCode # 400
          /\ proxyReq.state = "inflight"
          /\ upstreamCreated = 1

\* a request with a quote in its path, sent by a page of a PP host, has reached the PP forwarder
RedirectedToPP ==
    /\ trail # <<>>
    /\ ~StartsWith(trail[1][2], PROXY_PREFIX)
    /\ Includes(trail[1][2], <<"\"">>)
    /\ pc = "handled"
    /\ ProviderOf(req.url) = "pp"
    /\ proxyReq.state = "inflight"

\* a request of the alias with a query and no path has reached the JILI forwarder
AliasReachedForwarder ==
    /\ trail = << <<"redirect", PROXY_PREFIX \o <<"?", "x">> >> >>
    /\ pc = "handled"
    /\ proxyReq.state = "inflight"
    /\ proxyReq.options.path = <<"/", "?", "x">>

----------------------------------------------------------------------------
\* hostname is a domain of provider p or a subdomain of one: the suffix, or a name
\* that ends with a dot and the suffix
DomainOrSubdomain(p, hostname) ==
    \E suf \in Suffixes(p) : hostname = suf \/ EndsWith(hostname, <<".">> \o suf)

(* C28 as stated: toProxyPath and toPPProxyPath return null for a host that *)
(* is neither a domain of the provider nor a dot-separated subdomain of     *)
(* one, and the forwarder's grammar accepts no path with such a host, so no *)
(* such host is ever contacted.                                             *)
OnlyProviderDomains ==
    /\ (pc \in {"encoded", "decoded"} /\ proxied.kind = "path")
          => DomainOrSubdomain(provider, ParseURL(fullUrl).hostname)
    /\ (pc = "decoded" /\ decoded.ok) => DomainOrSubdomain(provider, decoded.host)

\* the forwarder's grammar accepted the path toProxyPath made for evil-jiligames.com
LookalikeForwarded ==
    /\ pc = "decoded"
    /\ provider = "jili"
    /\ decoded.ok
    /\ decoded.host = <<"e", "v", "i", "l", "-">> \o JILI_COM

----------------------------------------------------------------------------
(* C29 as stated: a request answered from the cache on disk receives the    *)
(* complete image of a download that finished, and it is the image of the   *)
(* URL that was asked for.                                                  *)
CacheServesComplete ==
    \A c \in DOMAIN img :
        img[c].fromCache =>
            /\ \E u \in ImageUrls : img[c].served = Image(u)
            /\ img[c].served = Image(img[c].url)

\* a client was served from the cache the first chunks of a download still under way
PartialFileServed ==
    \E c, d \in DOMAIN img :
        /\ img[c].fromCache
        /\ img[d].state = "piping"
        /\ img[d].key = img[c].key
        /\ Len(img[c].served) < ImgChunks

\* a client that asked for one URL was served the cached image of another URL with
\* the same file name
OtherUrlServed ==
    \E c \in DOMAIN img :
        /\ img[c].fromCache
        /\ img[c].served # <<>>
        /\ \A n \in 1..Len(img[c].served) : img[c].served[n].url # img[c].url

----------------------------------------------------------------------------
(* The JILI resolution with the outbound request of httpsGet event by       *)
(* event: the promise settles in the 'end' of the response, in the 'error'  *)
(* of the request or in the callback of its timeout.                        *)

MaxBody == 2            \* 'data' events of one response

ResolveUrls == { API_GAME_URL \o p : p \in PlayParams } \cup { PLAY_JILI \o p : p \in PlayParams }

InitResolve ==
    /\ pc = "route"
    /\ CodecIdle
    /\ PlayIdle
    /\ ExtraIdle
    /\ OUTBOUND_PROXY_URL \in BOOLEAN
    /\ req \in [method : {"GET"}, url : ResolveUrls, headers : {EmptyFn}]
    /\ reqStream = "open"
    /\ proxyReq = NoProxyReq
    /\ proxyRes = NoProxyRes
    /\ res = FreshRes
    /\ chunks = <<>>
    /\ upstreamCreated = 0
    /\ errLog = 0

\* an event of the request of the call that is awaited
GetEvent(states, next) ==
    /\ pc = "awaiting"
    /\ call.n = calls
    /\ call.state \in states
    /\ call' = next
    /\ UNCHANGED <<pc, codecVars, OUTBOUND_PROXY_URL, fwdVars, playVars, rewriteVars, imgVars,
                   navVars>>

\* https.request(opts, ...) and req.end() of the call just made
GetStart ==
    /\ pc = "awaiting"
    /\ call.n < calls
    /\ call' = [n |-> calls, state |-> "sent", read |-> 0, left |-> 0, outcome |-> NoOutcome]
    /\ UNCHANGED <<pc, codecVars, OUTBOUND_PROXY_URL, fwdVars, playVars, rewriteVars, imgVars,
                   navVars>>

\* the responses the upstream may give to the call of the step
Responses ==
    { out \in (IF step = "step1" THEN Step1Outcomes(targetUrl) ELSE Step3Outcomes(targetUrl)) :
        out.kind = "response" }

\* 'response': the callback registers the 'data' and 'end' listeners
GetResponse ==
    \E out \in Responses, k \in 0..MaxBody :
        GetEvent({"sent"}, [call EXCEPT !.state = "response", !.left = k, !.outcome = out])

\* res 'data': chunks.push(c)
GetData ==
    /\ call.left > 0
    /\ GetEvent({"response"}, [call EXCEPT !.read = @ + 1, !.left = @ - 1])

\* res 'end': resolve({statusCode, headers, body})
GetEnd ==
    /\ call.left = 0
    /\ GetEvent({"response"}, [call EXCEPT !.state = "settled"])

\* req.on('error', reject): the transport fails before or during the response
GetError ==
    \E e \in TransportErrors(ParseURL(targetUrl).hostname) :
        GetEvent({"sent", "response"}, [call EXCEPT !.state = "settled", !.left = 0, !.outcome = e])

\* req.setTimeout(10000, ...): the socket was idle; req.destroy(); reject(new Error('Timeout'))
GetTimeout ==
    GetEvent({"sent", "response"},
             [call EXCEPT !.state = "settled", !.left = 0, !.outcome = RequestTimeout])

\* the upstream closes the connection before the end of the body: the response emits
\* 'aborted' and 'close' and no 'end', the request emits no 'error', and the destroyed
\* socket has no timeout any more
GetAborted ==
    /\ call.left > 0
    /\ GetEvent({"response"}, [call EXCEPT !.state = "aborted"])

\* the handler runs on from await httpsGet(...) of the trial page
ResumeStep1 ==
    /\ call.n = calls
    /\ call.state = "settled"
    /\ Settle("step1", call.outcome, AfterStep1(call.outcome), "step3", 0)

\* the handler runs on from await httpsGet(loginTrialUrl)
ResumeStep3 ==
    /\ call.n = calls
    /\ call.state = "settled"
    /\ Settle("step3", call.outcome, AfterStep3(call.outcome, targetUrl), "done", 0)

NextResolve ==
    \/ ApiGameUrl
    \/ PlayJili
    \/ GetStart
    \/ GetResponse
    \/ GetData
    \/ GetEnd
    \/ GetError
    \/ GetTimeout
    \/ GetAborted
    \/ ResumeStep1
    \/ ResumeStep3

SpecResolve == InitResolve /\ [][NextResolve]_vars

(* C30 as stated: whatever the upstream does, the request is answered at   *)
(* most once, and a call that is awaited and has not settled yet can still  *)
(* settle: the response can go on to its end, or the timeout can fire.      *)
ResolutionTerminates ==
    /\ Len(res.sends) <= 1
    /\ (pc = "awaiting" /\ call.n = calls /\ call.state # "settled")
          => ENABLED (GetData \/ GetEnd \/ GetTimeout)

\* the upstream closed the connection within the body of the login page: the promise
\* of the second call stays pending and the request unanswered
CallNeverSettles ==
    /\ pc = "awaiting"
    /\ calls = 2
    /\ call.n = 2
    /\ call.state = "aborted"
    /\ res.sends = <<>>

====
